---- MODULE Spec2Model ----
(***************************************************************************)
(* Script-to-video generator (1-fastapi): segmentation and timing, the     *)
(* provider search with its process-wide URL dedup set, and the job /      *)
(* concatenation status machine kept in the jobs table.                    *)
(*                                                                         *)
(* Durations are Python floats in the source.  They are modelled as exact  *)
(* rationals <<numerator, denominator>> with a positive denominator.       *)
(***************************************************************************)
EXTENDS Integers, Sequences, FiniteSets, TLC

VARIABLES
    \* ---- segmentation (Duration Model + Segmenter) ----
    segReq,         \* the inputs of one segmentation run (or NoReq)
    segRes,         \* what the run computed (or NoRes)
    \* ---- provider search and the dedup set ----
    used_urls,      \* search_helpers._used_urls
    retCount,       \* history: how often each URL was returned (in one result
                    \* or in several) since the last clear, capped at 2
    lastSearch,     \* summary of the latest search call (or NoSearch)
    \* ---- one job, its content records and its background tasks ----
    job,            \* the job's row of the jobs table (or NoJob)
    content,        \* the job's rows of the created_content table, in
                    \* insertion order
    tasks,          \* the processing tasks launched for the job, in launch order
    running,        \* the task that occupies the event loop (0: the loop is free)
    concat,         \* the concatenation tasks launched for the job: how many
                    \* are pending and were launched, and the run of the one
                    \* under study
    \* ---- single calls studied on their own ----
    retry,          \* the coroutines of an event loop of which one runs a
                    \* retry loop (request or download), or NoCall
    limiter,        \* the callers of check_rate_limit and the rate limiter's
                    \* state, or NoCall
    std,            \* one call of standardize_video, or NoCall
    img,            \* one call of image_to_video, or NoCall
    batch           \* one call of generate_ai_images_batch, or NoCall

vars == <<segReq, segRes, used_urls, retCount, lastSearch,
          job, content, tasks, running, concat, retry, limiter, std,
          img, batch>>
segVars == <<segReq, segRes>>
callVars == <<retry, limiter, std, img, batch>>
searchVars == <<used_urls, retCount, lastSearch>>
jobVars == <<job, content, tasks, running, concat>>

(***************************************************************************)
(* Bounds of the model.                                                    *)
(***************************************************************************)
MaxTextLen == 6         \* characters of a script text
MaxUrls == 1            \* distinct non-empty source URLs the providers know
MaxHits == 2            \* entries of one provider response
MaxJobWords == 2        \* words of the script text of a job
MaxJobHits == 1         \* entries of a provider response to a job's search
MaxRestarts == 1        \* restart requests for the job
MaxConcats == 2         \* concatenation tasks launched for the job
MaxClips == 3           \* content records of a job that is concatenated
MaxRegens == 1          \* regeneration requests for the job
MaxOtherSteps == 2      \* steps of the other coroutines next to a retry loop
MaxLongWords == 3       \* words of the longer scripts of SpecLong
MaxPrompts == 7         \* prompts of all calls of generate_ai_images_batch together
MaxBatchTime == 60      \* seconds of time.time() observed by the batch calls
AttemptCap == 6         \* HTTP attempts of one retry loop that are counted
MaxCallers == 7         \* calls of check_rate_limit
MaxTime == 120          \* seconds of time.time() that are observed
TimeStep == 30          \* seconds between two observations of the clock
MaxTenths == 50         \* longest source or target duration, in tenths of a second
MaxStillTenths == 30    \* longest requested or measured duration of a still clip, in tenths

(***************************************************************************)
(* Program constants.                                                      *)
(***************************************************************************)
WORDS_PER_MINUTE == 120
MIN_SEGMENT_DURATION == 2
MIN_VIDEO_DURATION == 3
MIN_IMAGE_DURATION == 2

(***************************************************************************)
(* Exact rational arithmetic for the float computations.                   *)
(***************************************************************************)
Rat(n, d) == <<n, d>>
RatLe(a, b) == a[1] * b[2] <= b[1] * a[2]
RatLt(a, b) == a[1] * b[2] < b[1] * a[2]
RatEq(a, b) == a[1] * b[2] = b[1] * a[2]
\* Python max(a, b): b only when b > a
RatMaxNoMinimum(a, b) == b
RatMax(a, b) == IF RatLt(a, b) THEN b ELSE a
\* int(a / b) for a >= 0, b > 0
RatFloorDiv(a, b) == (a[1] * b[2]) \div (a[2] * b[1])
IntMax(a, b) == IF b > a THEN b ELSE a
IntMin(a, b) == IF b < a THEN b ELSE a

(***************************************************************************)
(* Script text: a sequence of characters, " " being whitespace.            *)
(***************************************************************************)
Chars == {" ", "a"}

\* The maximal runs of non-whitespace characters of a text, as (first, last)
\* positions
WordStarts(text) ==
    {i \in 1..Len(text) : text[i] # " " /\ (i = 1 \/ text[i - 1] = " ")}
WordEnds(text) ==
    {i \in 1..Len(text) : text[i] # " " /\ (i = Len(text) \/ text[i + 1] = " ")}
\* the k-th smallest element of a set of numbers
Nth(S, k) == CHOOSE i \in S : Cardinality({j \in S : j < i}) = k - 1

\* [w for w in file_content.split() if w.strip()]
SplitWords(text) ==
    LET starts == WordStarts(text)
        ends == WordEnds(text)
    IN  [k \in 1..Cardinality(starts) |-> SubSeq(text, Nth(starts, k), Nth(ends, k))]

\* A script of n words
JobText(n) == [i \in 1..(2 * n - 1) |-> IF i % 2 = 1 THEN "a" ELSE " "]

\* The script of the end-to-end scenario A: 120 words
ScenarioAText == JobText(120)

\* for i in range(0, len(words), words_per_segment):
\*     segment_words = words[i:i + words_per_segment]; if segment_words: append
\* words[i:i + words_per_segment] (i = start, 0-based)
SliceOverlapping(words, start, wps) ==
    SubSeq(words, IntMax(1, start), IntMin(start + wps, Len(words)))
Slice(words, start, wps) ==
    SubSeq(words, start + 1, IntMin(start + wps, Len(words)))

RECURSIVE ChunkFrom(_, _, _)
ChunkFrom(words, wps, start) ==
    IF start >= Len(words)
    THEN <<>>
    ELSE <<Slice(words, start, wps)>> \o ChunkFrom(words, wps, start + wps)

\* " ".join(segment_words): the segment's text
RECURSIVE JoinWords(_)
JoinWords(words) ==
    IF words = <<>> THEN <<>>
    ELSE IF Len(words) = 1 THEN words[1]
    ELSE words[1] \o <<" ">> \o JoinWords(Tail(words))

\* (segment_word_count / speaking_rate) * 60, floored at the mode's minimum
SegmentDurationNoFloor(minimum, nwords, speaking_rate) == Rat(nwords * 60, speaking_rate)
SegmentDuration(minimum, nwords, speaking_rate) ==
    RatMax(Rat(minimum, 1), Rat(nwords * 60, speaking_rate))

TotalSegmentsNoFloor(total_duration, segment_duration) ==
    RatFloorDiv(total_duration, segment_duration)
TotalSegments(total_duration, segment_duration) ==
    IntMax(1, RatFloorDiv(total_duration, segment_duration))

\* The computation shared, copy by copy, by the four pipelines: the word
\* count, the Duration Model and the Segmenter.
Segmentation(text, content_per_minute, speaking_rate, minimum) ==
    LET words == SplitWords(text)
        word_count == Len(words)
        total_duration_in_seconds == Rat(word_count * 60, speaking_rate)
        segment_duration_in_seconds == RatMax(Rat(minimum, 1), Rat(60, content_per_minute))
        total_segments == TotalSegments(total_duration_in_seconds, segment_duration_in_seconds)
        words_per_segment ==
            IntMax(1, RatFloorDiv(Rat(speaking_rate * segment_duration_in_seconds[1],
                                      segment_duration_in_seconds[2]), Rat(60, 1)))
        segments == ChunkFrom(words, words_per_segment, 0)
    IN  [ word_count |-> word_count,
          total_duration |-> total_duration_in_seconds,
          segment_duration |-> segment_duration_in_seconds,
          total_segments |-> total_segments,
          words_per_segment |-> words_per_segment,
          segments |-> segments,
          segment_durations |->
              [k \in 1..Len(segments) |->
                  SegmentDuration(minimum, Len(segments[k]), speaking_rate)] ]

VideosSegmentation(text, videos_per_minute, speaking_rate) ==
    Segmentation(text, IntMax(1, videos_per_minute), speaking_rate, MIN_VIDEO_DURATION)

\* a Segmenter that reads the dedup set
ImagesSegmentationReadsState(text, images_per_minute, speaking_rate) ==
    Segmentation(IF used_urls = {} THEN text ELSE Tail(text),
                 IntMax(1, images_per_minute), speaking_rate, MIN_IMAGE_DURATION)
ImagesSegmentation(text, images_per_minute, speaking_rate) ==
    Segmentation(text, IntMax(1, images_per_minute), speaking_rate, MIN_IMAGE_DURATION)

AiImagesSegmentation(text, images_per_minute, speaking_rate) ==
    Segmentation(text, IntMax(1, images_per_minute), speaking_rate, MIN_IMAGE_DURATION)

MixedSegmentation(text, videos_per_minute, images_per_minute, speaking_rate) ==
    Segmentation(text, videos_per_minute + images_per_minute, speaking_rate,
                 MIN_SEGMENT_DURATION)

\* The minimum segment duration of a mode
ModeMinimum(mode) ==
    CASE mode = "videos" -> MIN_VIDEO_DURATION
      [] mode = "images" -> MIN_IMAGE_DURATION
      [] mode = "ai_images" -> MIN_IMAGE_DURATION
      [] mode = "mixed" -> MIN_SEGMENT_DURATION


(***************************************************************************)
(* Provider search (utils/search_helpers.py).  A provider response is a    *)
(* sequence of hits; a hit carries the source URL the function reads from  *)
(* it (0: the field is missing or empty) and whether the hit is malformed  *)
(* so that formatting it raises.                                           *)
(***************************************************************************)
Urls == 0..MaxUrls
Hits == [url : Urls, bad : BOOLEAN]
\* the loop stops at the first malformed hit, so only the last hit of a
\* response needs to be one
Responses ==
    {r \in UNION {[1..n -> Hits] : n \in 0..MaxHits} :
        \A i \in 1..Len(r) : r[i].bad => i = Len(r)}

\* `if download_url in _used_urls: continue`
AlreadyUsedNever(url, used) == FALSE
AlreadyUsed(url, used) == url \in used

\* `if video_url:` / `if not image_url: continue` (Pixabay only)
SkipsMissingUrl(fn) == fn \in {"pixabay_videos", "pixabay_images"}

\* Pexels videos builds the result entry after _used_urls.add, so a hit
\* whose "user" is null raises with its URL already marked; the other
\* functions read the malformed field before they look at the URL.
RaisesAfterAdd(fn) == fn = "pexels_videos"

Failed(used) == [used |-> used, out |-> <<>>, skipped |-> 0, error |-> TRUE]

\* The `for ... in data.get(...)` loop of a search function, from hit i on.
RECURSIVE CollectFrom(_, _, _, _, _, _, _)
CollectFrom(fn, hits, i, used, out, skipped, per_page) ==
    IF i > Len(hits)
    THEN [used |-> used, out |-> out, skipped |-> skipped, error |-> FALSE]
    ELSE LET h == hits[i] IN
         IF h.bad /\ ~RaisesAfterAdd(fn)
         THEN Failed(used)
         ELSE IF SkipsMissingUrl(fn) /\ h.url = 0
         THEN CollectFrom(fn, hits, i + 1, used, out, skipped, per_page)
         ELSE IF AlreadyUsed(h.url, used)
         THEN CollectFrom(fn, hits, i + 1, used, out, skipped + 1, per_page)
         ELSE IF h.bad
         THEN Failed(used \cup {h.url})
         ELSE IF Len(out) + 1 >= per_page
         THEN [used |-> used \cup {h.url}, out |-> Append(out, h.url),
               skipped |-> skipped, error |-> FALSE]
         ELSE CollectFrom(fn, hits, i + 1, used \cup {h.url}, Append(out, h.url),
                          skipped, per_page)

\* One search function: the request (ok or raising after its retries), then
\* the loop; `except Exception` returns the empty result.
SearchFn(fn, ok, hits, used, per_page) ==
    IF ok THEN CollectFrom(fn, hits, 1, used, <<>>, 0, per_page) ELSE Failed(used)

search_pexels_videos(ok, hits, used, per_page) ==
    SearchFn("pexels_videos", ok, hits, used, per_page)
search_pexels_images(ok, hits, used, per_page) ==
    SearchFn("pexels_images", ok, hits, used, per_page)
search_pixabay_videos(ok, hits, used, per_page) ==
    SearchFn("pixabay_videos", ok, hits, used, per_page)
search_pixabay_images(ok, hits, used, per_page) ==
    SearchFn("pixabay_images", ok, hits, used, per_page)
\* the SerpAPI branch of search_images
search_images_serpapi(ok, hits, used, num_results) ==
    SearchFn("serpapi", ok, hits, used, num_results)

VIDEO_PER_PAGE == 10        \* per_page default of the video searches
IMAGE_NUM_RESULTS == 3      \* num_results of search_images

Occurrences(out, u) == Cardinality({i \in 1..Len(out) : out[i] = u})

(***************************************************************************)
(* Specification SpecSeg: the Duration Model and the Segmenter applied to  *)
(* every request of the bounded input sets.                                *)
(***************************************************************************)
NoReq == [mode |-> "none"]
NoRes == [mode |-> "none"]
NoSearch == [fn |-> "none", stage |-> "done", hits |-> 0, skipped |-> 0,
             n_out |-> 0, error |-> FALSE]
NoJob == [id |-> "none"]
NoRun == [pc |-> "none"]
NoConcat == [pending |-> 0, launched |-> 0, run |-> NoRun]
NoCall == [pc |-> "none"]

Modes == {"videos", "images", "ai_images", "mixed"}
Texts == UNION {[1..n -> Chars] : n \in 0..MaxTextLen}
PerMinute == {0, 10, 20, 60}
Rates == {10, 20, 40, WORDS_PER_MINUTE}

SearchIdle ==
    /\ used_urls = {}
    /\ retCount = [u \in Urls |-> 0]
    /\ lastSearch = NoSearch

SegIdle ==
    /\ segReq = NoReq
    /\ segRes = NoRes

CallIdle ==
    /\ retry = NoCall
    /\ limiter = NoCall
    /\ std = NoCall
    /\ img = NoCall
    /\ batch = NoCall

JobIdle ==
    /\ job = NoJob
    /\ content = <<>>
    /\ tasks = <<>>
    /\ running = 0
    /\ concat = NoConcat

\* scenario A: 120 words at 120 words per minute, 10 videos per minute
ScenarioA ==
    [mode |-> "videos", text |-> ScenarioAText, videos_per_minute |-> 10,
     images_per_minute |-> 20, speaking_rate |-> WORDS_PER_MINUTE]

SegRequests ==
    [mode : Modes, text : Texts, videos_per_minute : PerMinute,
     images_per_minute : PerMinute, speaking_rate : Rates] \cup {ScenarioA}

InitSeg ==
    /\ segReq \in SegRequests
    /\ segRes = NoRes
    /\ SearchIdle
    /\ JobIdle
    /\ CallIdle

\* process_script clamps both per-minute values before it launches a pipeline
Clamp(per_minute) == IntMax(1, per_minute)

SegVideos ==
    /\ segReq.mode = "videos" /\ segRes = NoRes
    /\ segRes' = VideosSegmentation(segReq.text, Clamp(segReq.videos_per_minute),
                                    segReq.speaking_rate)
    /\ UNCHANGED <<segReq, callVars, searchVars, jobVars>>

SegImages ==
    /\ segReq.mode = "images" /\ segRes = NoRes
    /\ segRes' = ImagesSegmentation(segReq.text, Clamp(segReq.images_per_minute),
                                    segReq.speaking_rate)
    /\ UNCHANGED <<segReq, callVars, searchVars, jobVars>>

SegAiImages ==
    /\ segReq.mode = "ai_images" /\ segRes = NoRes
    /\ segRes' = AiImagesSegmentation(segReq.text, Clamp(segReq.images_per_minute),
                                      segReq.speaking_rate)
    /\ UNCHANGED <<segReq, callVars, searchVars, jobVars>>

SegMixed ==
    /\ segReq.mode = "mixed" /\ segRes = NoRes
    /\ segRes' = MixedSegmentation(segReq.text, Clamp(segReq.videos_per_minute),
                                   Clamp(segReq.images_per_minute), segReq.speaking_rate)
    /\ UNCHANGED <<segReq, callVars, searchVars, jobVars>>

NextSeg == SegVideos \/ SegImages \/ SegAiImages \/ SegMixed

SpecSeg == InitSeg /\ [][NextSeg]_vars

SegDone == segRes # NoRes

\* C8: for every text (word count >= 0, the empty text included), speaking
\* rate > 0 and content-per-minute >= 1, in each mode, the segment count the
\* pipeline computes (and writes to the job's segment_count) is >= 1.
C8_SegmentCountAtLeastOne ==
    SegDone => segRes.total_segments >= 1

\* C8 witness: an empty text (word count 0) has been through the Duration
\* Model, which computed the segment count 1 for it.
C8_Witness ==
    /\ SegDone
    /\ segRes.word_count = 0
    /\ segRes.total_segments = 1

\* C9 (as claimed): for every input text, empty and whitespace-only text
\* included, the segment sequence the pipeline builds has at least one segment.
C9_AtLeastOneSegment ==
    SegDone => Len(segRes.segments) >= 1

\* C10: every segment's target duration is >= the minimum of the active mode
\* and equals max(minimum, wordsInSegment / speakingRate * 60), computed from
\* the words actually in the segment.
C10_DurationFloor ==
    SegDone =>
        /\ Len(segRes.segment_durations) = Len(segRes.segments)
        /\ \A k \in 1..Len(segRes.segments) :
              LET n == Len(segRes.segments[k])
                  minimum == ModeMinimum(segReq.mode)
                  d == segRes.segment_durations[k]
              IN  /\ d[2] > 0
                  /\ d[1] >= minimum * d[2]
                  /\ IF n * 60 > minimum * segReq.speaking_rate
                     THEN d[1] * segReq.speaking_rate = n * 60 * d[2]
                     ELSE d[1] = minimum * d[2]

\* C10 witness: a trailing segment shorter than wordsPerSegment whose own
\* words last less than the minimum, after a full segment that lasts longer.
C10_Witness ==
    /\ SegDone
    /\ Len(segRes.segments) >= 2
    /\ LET last == Len(segRes.segments)
           minimum == ModeMinimum(segReq.mode)
       IN  /\ Len(segRes.segments[last]) < segRes.words_per_segment
           /\ Len(segRes.segments[last]) * 60 < minimum * segReq.speaking_rate
           /\ RatEq(segRes.segment_durations[last], Rat(minimum, 1))
           /\ RatLt(Rat(minimum, 1), segRes.segment_durations[1])

\* The content-per-minute value of a request in its mode
ContentPerMinute(req) ==
    CASE req.mode = "videos" -> IntMax(1, Clamp(req.videos_per_minute))
      [] req.mode \in {"images", "ai_images"} -> IntMax(1, Clamp(req.images_per_minute))
      [] req.mode = "mixed" -> Clamp(req.videos_per_minute) + Clamp(req.images_per_minute)

\* C11: the Duration Model computes segmentDuration = max(minimum, 60 /
\* contentPerMinute), segmentCount = max(1, floor(totalDuration /
\* segmentDuration)) and wordsPerSegment = max(1, floor(speakingRate *
\* segmentDuration / 60)); a 120-word script at speaking rate 120 with 10
\* videos per minute in videos mode gets totalDuration 60 s, segmentDuration
\* 6 s and segmentCount 10.
C11_DurationModel ==
    SegDone =>
        LET minimum == ModeMinimum(segReq.mode)
            cpm == ContentPerMinute(segReq)
            rate == segReq.speaking_rate
            T == segRes.total_duration
            d == segRes.segment_duration
            c == segRes.total_segments
            w == segRes.words_per_segment
        IN  /\ T[2] > 0 /\ d[2] > 0
            /\ T[1] * rate = segRes.word_count * 60 * T[2]
            /\ IF 60 > minimum * cpm THEN d[1] * cpm = 60 * d[2]
                                     ELSE d[1] = minimum * d[2]
            /\ c >= 1
            /\ T[1] * d[2] < (c + 1) * d[1] * T[2]
            /\ c >= 2 => c * d[1] * T[2] <= T[1] * d[2]
            /\ w >= 1
            /\ rate * d[1] < (w + 1) * 60 * d[2]
            /\ w >= 2 => w * 60 * d[2] <= rate * d[1]
            /\ (/\ segReq.mode = "videos" /\ segRes.word_count = 120
                /\ rate = 120 /\ segReq.videos_per_minute = 10)
                  => /\ T[1] = 60 * T[2]
                     /\ d[1] = 6 * d[2]
                     /\ c = 10

\* C11 witness: scenario A has been computed (120 words, rate 120, 10 videos
\* per minute, videos mode) with its 10 segments of 12 words.
C11_Witness ==
    /\ SegDone
    /\ segReq.mode = "videos"
    /\ segReq.text = ScenarioAText
    /\ segReq.speaking_rate = 120
    /\ segReq.videos_per_minute = 10
    /\ segRes.word_count = 120
    /\ segRes.total_segments = 10
    /\ segRes.words_per_segment = 12
    /\ Len(segRes.segments) = 10


\* the words of the segments' texts, tokenized again, in index order
RECURSIVE WordsOfSegments(_, _)
WordsOfSegments(segments, k) ==
    IF k > Len(segments) THEN <<>>
    ELSE SplitWords(JoinWords(segments[k])) \o WordsOfSegments(segments, k + 1)

\* C28: the Segmenter cuts the whitespace-tokenized script into contiguous
\* chunks: every segment but the last has exactly words_per_segment words,
\* the last has between 1 and words_per_segment, and the words of the
\* segments' texts in index order are the script's tokens, none lost,
\* duplicated or reordered.
C28_SegmentsPartitionTheWords ==
    SegDone =>
        LET segments == segRes.segments
            n == Len(segments)
        IN  /\ \A k \in 1..n :
                  /\ k < n => Len(segments[k]) = segRes.words_per_segment
                  /\ Len(segments[k]) >= 1
                  /\ Len(segments[k]) <= segRes.words_per_segment
            /\ WordsOfSegments(segments, 1) = SplitWords(segReq.text)

\* C28 witness: three words at two words per segment: a full segment and a
\* shorter last one.
C28_Witness ==
    /\ SegDone
    /\ segRes.word_count = 3
    /\ segRes.words_per_segment = 2
    /\ Len(segRes.segments) = 2
    /\ Len(segRes.segments[1]) = 2 /\ Len(segRes.segments[2]) = 1

(***************************************************************************)
(* Specification SpecSearch: any sequence of search calls, of any provider *)
(* function and with any provider response, and clear_url_cache.           *)
(***************************************************************************)
InitSearch ==
    /\ SegIdle
    /\ SearchIdle
    /\ JobIdle
    /\ CallIdle

InFallback == lastSearch.stage \in {"pexels", "pixabay"}

\* Book-keeping of a returned result r of function fn
ReturnedForgets(fn, stage, hits, r, prev) ==
    /\ used_urls' = {r.out[i] : i \in DOMAIN r.out}
    /\ retCount' = [u \in Urls |-> IntMin(2, retCount[u] + Occurrences(r.out, u))]
    /\ lastSearch' = [fn |-> fn, stage |-> stage, hits |-> prev.hits + Len(hits),
                      skipped |-> prev.skipped + r.skipped,
                      n_out |-> prev.n_out + Len(r.out),
                      error |-> r.error]
Returned(fn, stage, hits, r, prev) ==
    /\ used_urls' = r.used
    /\ retCount' = [u \in Urls |-> IntMin(2, retCount[u] + Occurrences(r.out, u))]
    /\ lastSearch' = [fn |-> fn, stage |-> stage, hits |-> prev.hits + Len(hits),
                      skipped |-> prev.skipped + r.skipped,
                      n_out |-> prev.n_out + Len(r.out),
                      error |-> r.error]

SearchPexelsVideos ==
    /\ ~InFallback
    /\ \E ok \in BOOLEAN, hits \in Responses :
          /\ (~ok => hits = <<>>)
          /\ Returned("pexels_videos", "done", hits,
                      search_pexels_videos(ok, hits, used_urls, VIDEO_PER_PAGE), NoSearch)
    /\ UNCHANGED <<segVars, callVars, jobVars>>

SearchPixabayVideos ==
    /\ ~InFallback
    /\ \E ok \in BOOLEAN, hits \in Responses :
          /\ (~ok => hits = <<>>)
          /\ Returned("pixabay_videos", "done", hits,
                      search_pixabay_videos(ok, hits, used_urls, VIDEO_PER_PAGE), NoSearch)
    /\ UNCHANGED <<segVars, callVars, jobVars>>

\* search_images(query, num_results, provider="pexels")
SearchPexelsImages ==
    /\ ~InFallback
    /\ \E ok \in BOOLEAN, hits \in Responses :
          /\ (~ok => hits = <<>>)
          /\ Returned("pexels_images", "done", hits,
                      search_pexels_images(ok, hits, used_urls, IMAGE_NUM_RESULTS), NoSearch)
    /\ UNCHANGED <<segVars, callVars, jobVars>>

\* search_images(query, num_results, provider="pixabay")
SearchPixabayImages ==
    /\ ~InFallback
    /\ \E ok \in BOOLEAN, hits \in Responses :
          /\ (~ok => hits = <<>>)
          /\ Returned("pixabay_images", "done", hits,
                      search_pixabay_images(ok, hits, used_urls, IMAGE_NUM_RESULTS), NoSearch)
    /\ UNCHANGED <<segVars, callVars, jobVars>>

\* search_images with any other provider: SerpAPI; without SERPAPI_KEY, or
\* when the request or the loop raises, the Pexels + Pixabay fallback follows.
SearchImagesSerpApi ==
    /\ ~InFallback
    /\ \E ok \in BOOLEAN, hits \in Responses :
          /\ (~ok => hits = <<>>)
          /\ LET r == search_images_serpapi(ok, hits, used_urls, IMAGE_NUM_RESULTS)
             IN  Returned("serpapi", IF r.error THEN "pexels" ELSE "done", hits, r, NoSearch)
    /\ UNCHANGED <<segVars, callVars, jobVars>>

\* search_pexels_images(query, num_results // 2) if PEXELS_API_KEY else []
FallbackPexelsImages ==
    /\ lastSearch.stage = "pexels"
    /\ \E key \in BOOLEAN, ok \in BOOLEAN, hits \in Responses :
          /\ (~(key /\ ok) => hits = <<>>)
          /\ LET r == IF key
                      THEN search_pexels_images(ok, hits, used_urls,
                                                IMAGE_NUM_RESULTS \div 2)
                      ELSE [Failed(used_urls) EXCEPT !.error = FALSE]
             IN  Returned("fallback", "pixabay", hits, r, NoSearch)
    /\ UNCHANGED <<segVars, callVars, jobVars>>

\* ... + search_pixabay_images(query, num_results // 2) if PIXABAY_API_KEY else []
FallbackPixabayImages ==
    /\ lastSearch.stage = "pixabay"
    /\ \E key \in BOOLEAN, ok \in BOOLEAN, hits \in Responses :
          /\ (~(key /\ ok) => hits = <<>>)
          /\ LET r == IF key
                      THEN search_pixabay_images(ok, hits, used_urls,
                                                 IMAGE_NUM_RESULTS \div 2)
                      ELSE [Failed(used_urls) EXCEPT !.error = FALSE]
             IN  Returned("fallback", "done", hits, r, lastSearch)
    /\ UNCHANGED <<segVars, callVars, jobVars>>

\* clear_url_cache(): a new history starts
ClearUrlCache ==
    /\ ~InFallback
    /\ used_urls' = {}
    /\ retCount' = [u \in Urls |-> 0]
    /\ lastSearch' = [NoSearch EXCEPT !.fn = "clear"]
    /\ UNCHANGED <<segVars, callVars, jobVars>>

NextSearch ==
    \/ SearchPexelsVideos
    \/ SearchPixabayVideos
    \/ SearchPexelsImages
    \/ SearchPixabayImages
    \/ SearchImagesSerpApi
    \/ FallbackPexelsImages
    \/ FallbackPixabayImages
    \/ ClearUrlCache

SpecSearch == InitSearch /\ [][NextSearch]_vars

\* C1: with no clear_url_cache in between, no source URL is returned by two
\* search calls or twice within one result (videos or images, any provider);
\* a search whose provider response holds only already-used URLs returns no
\* candidate.
C1_NoUrlReturnedTwice ==
    /\ \A u \in Urls : retCount[u] <= 1
    /\ (lastSearch.hits >= 1 /\ lastSearch.skipped = lastSearch.hits)
          => lastSearch.n_out = 0

\* C1 witness (scenario D): a URL was returned by an earlier search, and the
\* latest search got a response of exactly one hit, that URL again, and
\* returned no candidate.
C1_Witness ==
    /\ lastSearch.fn \in {"pexels_videos", "pixabay_images"}
    /\ lastSearch.hits = 1
    /\ lastSearch.skipped = 1
    /\ ~lastSearch.error
    /\ lastSearch.n_out = 0
    /\ \E u \in Urls \ {0} : used_urls = {u} /\ retCount[u] = 1


(***************************************************************************)
(* Specification Spec: one job from its creation by process_script, its    *)
(* processing tasks, the restart, mark-segments-completed and from-job     *)
(* requests, and its concatenation tasks.                                  *)
(*                                                                         *)
(* The server runs one asyncio event loop.  The stock pipelines never      *)
(* suspend (requests, time.sleep and the OpenAI and Supabase clients are   *)
(* synchronous calls inside `async def`), so a request handler runs only   *)
(* when no task occupies the loop; the AI image pipeline suspends at its   *)
(* asyncio.gather calls.  Every write to the jobs table is a step of its   *)
(* own where a later write of the same task can undo it.  Segment indices  *)
(* are 1-based here (0-based in the source).                               *)
(***************************************************************************)
STATUS_PENDING == 1
STATUS_PROCESSING == 2
STATUS_COMPLETED == 3
STATUS_FAILED == 4

CONCAT_NOT_STARTED == 0
CONCAT_PENDING == 1
CONCAT_PROCESSING == 2
CONCAT_COMPLETED == 3
CONCAT_FAILED == 4

DEFAULT_VIDEOS_PER_MINUTE == 10
DEFAULT_IMAGES_PER_MINUTE == 20

\* Methods the routes call on supabase_db / supabase_storage that the
\* classes do not define: the call raises AttributeError.
UpdateJobResultRaises == TRUE
CreateContentRecordRaises == TRUE
UploadImageRaises == TRUE

JobTexts == {JobText(n) : n \in 0..MaxJobWords} \cup {<<" ">>}
JobModes == {"videos", "images", "mixed"}
JobProviders == {"pexels", "pixabay", "google"}
JobRates == {20, WORDS_PER_MINUTE}
JobPerMinute == {20}

\* The requests of the model: mixed mode with stock providers only
Requests ==
    {r \in [file_content : JobTexts, mode : JobModes, videos_per_minute : JobPerMinute,
            images_per_minute : JobPerMinute, search_provider : JobProviders,
            speaking_rate : JobRates] :
        r.mode = "mixed" => r.search_provider # "google"}

\* supabase_db.create_job(script_text, mode, video_url=None, status=1, ...)
\* restarts: how many restart requests the job has had (history)
create_job(script_text, mode) ==
    [ script_text |-> script_text,
      mode |-> mode,
      status |-> STATUS_PENDING,
      error |-> FALSE,
      segment_count |-> 0,
      processed_segment_count |-> 0,
      video_segments_completed |-> 0,
      concatenated_video_status |-> CONCAT_NOT_STARTED,
      video_url |-> FALSE,
      restarts |-> 0 ]

\* A background task as background_tasks.add_task queues it.
\*   kind       the pipeline: "videos", "images", "ai_images", "mixed"
\*   segments   the segment texts (each a sequence of words)
\*   segs       segment_durations, sections: the indices of the content
\*              sections appended so far, idx: the segment the loop is at
\*   raised     an exception left the per-segment scope (query generation)
\*   seg_fault  some segment's media resolution failed (history)
\*   search_key, text_key: whether the process environment holds the search
\*              provider's API key and OPENAI_API_KEY
\*   key_fault  a call of the task raised for a missing key (history)
\*   superseded the task had started and not finished when a restart reset
\*              the job (history)
\*   query_fault a generate_text call for a segment's query or prompt raised
\*              (history)
\*   searches   for each segment resolved so far, the search calls of its
\*              iteration in call order (history; videos and images
\*              pipelines)
NewTask(kind, videos_per_minute, images_per_minute, search_provider, speaking_rate, env) ==
    [ kind |-> kind,
      pc |-> "queued",
      videos_per_minute |-> videos_per_minute,
      images_per_minute |-> images_per_minute,
      search_provider |-> search_provider,
      speaking_rate |-> speaking_rate,
      segments |-> <<>>,
      segs |-> <<>>,
      idx |-> 0,
      sections |-> <<>>,
      processed_count |-> 0,
      raised |-> FALSE,
      seg_fault |-> FALSE,
      search_key |-> env.search_key,
      text_key |-> env.text_key,
      key_fault |-> FALSE,
      superseded |-> FALSE,
      searches |-> <<>>,
      query_fault |-> FALSE ]

\* The process environment: the API keys read at import
\* (search_key: the key of the provider the task searches, Pixabay's for
\* provider "pixabay" and Pexels' otherwise)
Envs == [search_key : BOOLEAN, text_key : BOOLEAN]
\* the environments a run with provider "pexels" can see after a run of task
EnvsAfter(task) ==
    {env \in Envs :
        /\ env.text_key = task.text_key
        /\ task.search_provider # "pixabay" => env.search_key = task.search_key}

\* The search functions that raise ValueError when their key is not set;
\* search_pixabay_videos sends the request without a key.
KeyChecked(fn) == fn # "pixabay_videos"

\* process_image_content: `provider == "openai-gpt-image" or provider ==
\* "google" or provider == "minimax"` selects the AI pipeline
IsAiProvider(provider) == provider \in {"openai-gpt-image", "google", "minimax"}

PipelineOf(mode, provider) ==
    CASE mode = "videos" -> "videos"
      [] mode = "images" -> IF IsAiProvider(provider) THEN "ai_images" ELSE "images"
      [] OTHER -> "mixed"

Init ==
    /\ SegIdle
    /\ SearchIdle
    /\ JobIdle
    /\ CallIdle

\* POST /api/process-script: create the job and queue its pipeline
ProcessScriptOf(requests) ==
    /\ job = NoJob
    /\ running = 0
    /\ \E r \in requests, env \in Envs :
          /\ job' = create_job(r.file_content, r.mode)
          /\ tasks' = <<NewTask(PipelineOf(r.mode, r.search_provider),
                                Clamp(r.videos_per_minute), Clamp(r.images_per_minute),
                                r.search_provider, r.speaking_rate, env)>>
    /\ UNCHANGED <<segVars, callVars, searchVars, content, running, concat>>
ProcessScript == ProcessScriptOf(Requests)

Task(t) == tasks[t]
Advance(t, new) == tasks' = [tasks EXCEPT ![t] = new]

\* process_video_content starts: status processing
StartVideoContent(t) ==
    /\ running = 0
    /\ Task(t).kind = "videos" /\ Task(t).pc = "queued"
    /\ running' = t
    /\ job' = [job EXCEPT !.status = STATUS_PROCESSING]
    /\ Advance(t, [Task(t) EXCEPT !.pc = "segment"])
    /\ UNCHANGED <<segVars, callVars, searchVars, content, concat>>

\* process_image_content starts (no write before the pipeline is chosen)
StartImageContent(t) ==
    /\ running = 0
    /\ Task(t).kind \in {"images", "ai_images"} /\ Task(t).pc = "queued"
    /\ running' = t
    /\ Advance(t, [Task(t) EXCEPT !.pc = IF Task(t).kind = "images"
                                           THEN "segment" ELSE "ai_segment"])
    /\ UNCHANGED <<segVars, callVars, searchVars, job, content, concat>>

\* process_text_content_for_{videos,images}_fetching up to the segment loop:
\* segment count, processed count 0, status processing, the segments
SegmentStock(t) ==
    /\ running = t
    /\ Task(t).kind \in {"videos", "images"} /\ Task(t).pc = "segment"
    /\ LET sg == IF Task(t).kind = "videos"
                 THEN VideosSegmentation(job.script_text, Task(t).videos_per_minute,
                                         Task(t).speaking_rate)
                 ELSE ImagesSegmentation(job.script_text, Task(t).images_per_minute,
                                         Task(t).speaking_rate)
       IN  /\ job' = [job EXCEPT !.segment_count = sg.total_segments,
                                 !.processed_segment_count = 0,
                                 !.status = STATUS_PROCESSING]
           /\ Advance(t, [Task(t) EXCEPT !.segments = sg.segments,
                                         !.segs = sg.segment_durations,
                                         !.pc = "queries"])
    /\ UNCHANGED <<segVars, callVars, searchVars, content, running, concat>>

\* the generate_text loop: one query per segment; generate_text re-raises,
\* which leaves the pipeline through its outer `except`
GenerateQueries(t) ==
    /\ running = t
    /\ Task(t).pc = "queries"
    /\ \E ok \in BOOLEAN :
          /\ (Task(t).segs = <<>>) => ok
          /\ (Task(t).segs # <<>> /\ ~Task(t).text_key) => ~ok
          /\ Advance(t, IF ok
                        THEN [Task(t) EXCEPT !.idx = 1,
                                 !.pc = IF Task(t).segs = <<>> THEN "inner_done"
                                        ELSE "resolve"]
                        ELSE [Task(t) EXCEPT !.raised = TRUE,
                                             !.query_fault = TRUE,
                                             !.key_fault = ~Task(t).text_key,
                                             !.pc = "inner_failed"])
    /\ UNCHANGED <<segVars, callVars, searchVars, job, content, running, concat>>

\* search_videos(query, provider): Pixabay, or Pexels for every other provider
SearchVideosFn(provider) == IF provider = "pixabay" THEN "pixabay_videos" ELSE "pexels_videos"
\* search_images(query, provider=...) with a stock provider
SearchImagesFn(provider) == IF provider = "pixabay" THEN "pixabay_images" ELSE "pexels_images"

\* the provider responses drawn for the searches of a job
JobResponses == {r \in Responses : Len(r) <= MaxJobHits}

\* What happens to the first search result once it has a URL
VideoFates == {"stored", "download_failed", "upload_failed", "no_duration",
               "add_content_failed"}
ImageFates == {"stored", "download_failed", "upload_failed", "add_content_failed"}
\* the durations (seconds) a provider reports for its videos
VideoDurations == {3, 10}
\* the choice made where no duration is read
NoDuration == CHOOSE d \in VideoDurations : TRUE

\* duration=float(video_result.get("duration", duration)): the search result
\* always has the key, so the provider's value is stored
VideoRecordDuration(provider_duration, duration) == Rat(provider_duration, 1)
\* duration=duration
ImageRecordDuration(duration) == duration

\* The storage URL of the file a segment's iteration uploaded, and the
\* thumbnail it stores: the provider's picture for a video, the uploaded
\* image itself otherwise
SegmentUpload(segment) == <<"segment_upload", segment>>
SegmentThumbnail(content_type, segment) ==
    IF content_type = "video" THEN <<"segment_picture", segment>>
    ELSE SegmentUpload(segment)

\* a row of created_content (its id is its position in `content`); segment
\* and target (the segment's index and its target duration) are history, not
\* columns
ContentRecordOf(content_type, duration, segment, target, run) ==
    [content_type |-> content_type, duration |-> duration, segment |-> segment,
     target |-> target,
     supabase_url |-> SegmentUpload(segment),
     thumbnail |-> SegmentThumbnail(content_type, segment),
     run |-> run]               \* history: the run of the job that made the row
ContentRecord(content_type, duration, segment, target) ==
    ContentRecordOf(content_type, duration, segment, target, job.restarts)

\* `item_duration = float(item.get("duration", 5.0))`: the duration the
\* concatenation task normalizes the item to
item_duration(item) == item.duration

\* A call of search_videos / search_images by a segment's iteration: the
\* query it was given ("query": the generated query, "simple_query": its
\* first two words) and how many results it returned (raised: it raised)
SearchCall(query, r) == [query |-> query, results |-> Len(r.out), raised |-> FALSE]
RaisedSearchCall(query) == [query |-> query, results |-> 0, raised |-> TRUE]

\* `if not video_response or not video_response.get("videos")` /
\* `if not search_results`: the search is repeated with the simpler query
NeedsSimplerQueryAlways(r) == TRUE
NeedsSimplerQuery(r) == r.out = <<>>

\* An iteration of the segment loop whose search raises (the key is not
\* set): the per-segment `except` logs it and the blank section is appended.
SegmentSearchRaised(t) ==
    /\ Advance(t, [Task(t) EXCEPT
                      !.idx = @ + 1,
                      !.sections = Append(@, Task(t).idx),
                      !.seg_fault = TRUE,
                      !.key_fault = TRUE,
                      !.searches = Append(@, <<RaisedSearchCall("query")>>),
                      !.pc = IF Task(t).idx = Len(Task(t).segs) THEN "inner_done"
                             ELSE "resolve"])
    /\ UNCHANGED <<searchVars, job, content>>

\* The rest of an iteration of the videos pipeline once the search (the
\* latest call being r, on the response hits) is over: the first result is
\* downloaded, uploaded and recorded, and the section is appended; a failure
\* on the way ends in `continue`, before the section is built.
VideoSegmentOutcome(t, fn, hits, r, calls) ==
    LET k == Task(t).idx
        duration == Task(t).segs[k]
        video_url == IF r.out = <<>> THEN 0 ELSE r.out[1]
    IN  \E fate \in VideoFates, provider_duration \in VideoDurations :
        LET stored == video_url # 0 /\ fate = "stored"
            skipped == video_url # 0 /\ fate # "stored"
        IN  /\ video_url = 0 => fate = "stored"
            /\ ~stored => provider_duration = NoDuration
            /\ Returned(fn, "done", hits, r, NoSearch)
            /\ content' =
                  IF stored
                  THEN Append(content,
                              ContentRecord("video",
                                  VideoRecordDuration(provider_duration, duration),
                                  k, duration))
                  ELSE content
            /\ job' =
                  IF stored
                  THEN [job EXCEPT
                          !.processed_segment_count = Task(t).processed_count + 1,
                          !.video_segments_completed = @ + 1]
                  ELSE job
            /\ Advance(t, [Task(t) EXCEPT
                              !.idx = k + 1,
                              !.sections = IF skipped THEN @ ELSE Append(@, k),
                              !.processed_count = IF stored THEN @ + 1 ELSE @,
                              !.seg_fault = @ \/ ~stored,
                              !.searches = Append(@, calls),
                              !.pc = IF k = Len(Task(t).segs) THEN "inner_done"
                                     ELSE "resolve"])

\* One iteration of the segment loop of the videos pipeline: the search and,
\* when it returns nothing, one more search with the simpler query
ResolveVideoSegment(t) ==
    /\ running = t
    /\ Task(t).kind = "videos" /\ Task(t).pc = "resolve"
    /\ LET fn == SearchVideosFn(Task(t).search_provider)
       IN  IF ~Task(t).search_key /\ KeyChecked(fn)
           THEN SegmentSearchRaised(t)
           ELSE
           \E ok1 \in BOOLEAN, hits1 \in JobResponses :
           /\ ~ok1 => hits1 = <<>>
           /\ ~Task(t).search_key => ~ok1
           /\ LET first == SearchFn(fn, ok1, hits1, used_urls, VIDEO_PER_PAGE)
              IN  IF ~NeedsSimplerQuery(first)
                  THEN VideoSegmentOutcome(t, fn, hits1, first,
                                           <<SearchCall("query", first)>>)
                  ELSE \E ok2 \in BOOLEAN, hits2 \in JobResponses :
                       /\ ~ok2 => hits2 = <<>>
                       /\ ~Task(t).search_key => ~ok2
                       /\ LET second == SearchFn(fn, ok2, hits2, first.used,
                                                 VIDEO_PER_PAGE)
                          IN  VideoSegmentOutcome(t, fn, hits2, second,
                                  <<SearchCall("query", first),
                                    SearchCall("simple_query", second)>>)
    /\ UNCHANGED <<segVars, callVars, running, concat>>

\* The rest of an iteration of the stock images pipeline once the search is
\* over; as for videos, a failure ends in `continue`.
ImageSegmentOutcome(t, fn, hits, r, calls) ==
    LET k == Task(t).idx
        duration == Task(t).segs[k]
        image_url == IF r.out = <<>> THEN 0 ELSE r.out[1]
    IN  \E fate \in ImageFates :
        LET stored == image_url # 0 /\ fate = "stored"
            skipped == image_url # 0 /\ fate # "stored"
        IN  /\ image_url = 0 => fate = "stored"
            /\ Returned(fn, "done", hits, r, NoSearch)
            /\ content' =
                  IF stored
                  THEN Append(content,
                              ContentRecord("image", ImageRecordDuration(duration),
                                            k, duration))
                  ELSE content
            /\ job' =
                  IF stored
                  THEN [job EXCEPT
                          !.processed_segment_count = Task(t).processed_count + 1,
                          !.video_segments_completed = @ + 1]
                  ELSE job
            /\ Advance(t, [Task(t) EXCEPT
                              !.idx = k + 1,
                              !.sections = IF skipped THEN @ ELSE Append(@, k),
                              !.processed_count = IF stored THEN @ + 1 ELSE @,
                              !.seg_fault = @ \/ ~stored,
                              !.searches = Append(@, calls),
                              !.pc = IF k = Len(Task(t).segs) THEN "inner_done"
                                     ELSE "resolve"])

\* One iteration of the segment loop of the stock images pipeline
ResolveImageSegment(t) ==
    /\ running = t
    /\ Task(t).kind = "images" /\ Task(t).pc = "resolve"
    /\ LET fn == SearchImagesFn(Task(t).search_provider)
       IN  IF ~Task(t).search_key /\ KeyChecked(fn)
           THEN SegmentSearchRaised(t)
           ELSE
           \E ok1 \in BOOLEAN, hits1 \in JobResponses :
           /\ ~ok1 => hits1 = <<>>
           /\ LET first == SearchFn(fn, ok1, hits1, used_urls, IMAGE_NUM_RESULTS)
              IN  IF ~NeedsSimplerQuery(first)
                  THEN ImageSegmentOutcome(t, fn, hits1, first,
                                           <<SearchCall("query", first)>>)
                  ELSE \E ok2 \in BOOLEAN, hits2 \in JobResponses :
                       /\ ~ok2 => hits2 = <<>>
                       /\ LET second == SearchFn(fn, ok2, hits2, first.used,
                                                 IMAGE_NUM_RESULTS)
                          IN  ImageSegmentOutcome(t, fn, hits2, second,
                                  <<SearchCall("query", first),
                                    SearchCall("simple_query", second)>>)
    /\ UNCHANGED <<segVars, callVars, running, concat>>

\* process_text_content_for_videos_fetching after its loop: status completed,
\* concatenation status pending
VideosInnerCompleted(t) ==
    /\ running = t
    /\ Task(t).kind = "videos" /\ Task(t).pc = "inner_done"
    /\ job' = [job EXCEPT !.status = STATUS_COMPLETED,
                          !.concatenated_video_status = CONCAT_PENDING]
    /\ Advance(t, [Task(t) EXCEPT !.pc = "outer_done"])
    /\ UNCHANGED <<segVars, callVars, searchVars, content, running, concat>>

\* process_video_content after the pipeline returned: the same two writes
VideoContentCompleted(t) ==
    /\ running = t
    /\ Task(t).kind = "videos" /\ Task(t).pc = "outer_done"
    /\ job' = [job EXCEPT !.status = STATUS_COMPLETED,
                          !.concatenated_video_status = CONCAT_PENDING]
    /\ Advance(t, [Task(t) EXCEPT !.pc = "finished"])
    /\ running' = 0
    /\ UNCHANGED <<segVars, callVars, searchVars, content, concat>>

\* process_text_content_for_images_fetching after its loop: status completed
ImagesInnerCompleted(t) ==
    /\ running = t
    /\ Task(t).kind = "images" /\ Task(t).pc = "inner_done"
    /\ job' = [job EXCEPT !.status = STATUS_COMPLETED]
    /\ Advance(t, [Task(t) EXCEPT !.pc = "outer_result"])
    /\ UNCHANGED <<segVars, callVars, searchVars, content, running, concat>>

\* process_image_content after either pipeline returned: `if
\* content_sections:` update_job_result, whose AttributeError is caught by the
\* `except` (error, status failed); otherwise status completed
ImageContentResult(t) ==
    /\ running = t
    /\ Task(t).kind \in {"images", "ai_images"} /\ Task(t).pc = "outer_result"
    /\ job' = IF Task(t).sections # <<>> /\ UpdateJobResultRaises
              THEN [job EXCEPT !.error = TRUE, !.status = STATUS_FAILED]
              ELSE [job EXCEPT !.status = STATUS_COMPLETED]
    /\ Advance(t, [Task(t) EXCEPT !.pc = "finished"])
    /\ running' = 0
    /\ UNCHANGED <<segVars, callVars, searchVars, content, concat>>

\* the `except` of a stock pipeline: error, status failed, re-raise
InnerFailed(t) ==
    /\ running = t
    /\ Task(t).kind \in {"videos", "images"} /\ Task(t).pc = "inner_failed"
    /\ job' = [job EXCEPT !.error = TRUE, !.status = STATUS_FAILED]
    /\ Advance(t, [Task(t) EXCEPT !.pc = "outer_failed"])
    /\ UNCHANGED <<segVars, callVars, searchVars, content, running, concat>>

\* the `except` of process_video_content / process_image_content
OuterFailed(t) ==
    /\ running = t
    /\ Task(t).pc = "outer_failed"
    /\ job' = [job EXCEPT !.error = TRUE, !.status = STATUS_FAILED]
    /\ Advance(t, [Task(t) EXCEPT !.pc = "finished"])
    /\ running' = 0
    /\ UNCHANGED <<segVars, callVars, searchVars, content, concat>>

\* A task of the AI image pipeline is suspended at its asyncio.gather calls
\* when it has at least one segment; with no segment it never leaves the loop.
AiCanRun(t) == IF Task(t).segs = <<>> THEN running = t ELSE running = 0
AiYieldKeepsLoop(t, segs) == t
AiYield(t, segs) == IF segs = <<>> THEN t ELSE 0

\* process_text_content_for_ai_images_generation up to the gather of the
\* prompts: segment count, processed count 0, the segments (no status write)
AiSegment(t) ==
    /\ running = t
    /\ Task(t).kind = "ai_images" /\ Task(t).pc = "ai_segment"
    /\ LET sg == AiImagesSegmentation(job.script_text, Task(t).images_per_minute,
                                      Task(t).speaking_rate)
       IN  /\ job' = [job EXCEPT !.segment_count = sg.total_segments,
                                 !.processed_segment_count = 0]
           /\ Advance(t, [Task(t) EXCEPT !.segments = sg.segments,
                                         !.segs = sg.segment_durations,
                                         !.pc = "ai_prompts"])
           /\ running' = AiYield(t, sg.segment_durations)
    /\ UNCHANGED <<segVars, callVars, searchVars, content, concat>>

\* the gathered generate_text calls return, or one raises (then the
\* exception reaches the `except` of process_image_content)
AiPrompts(t) ==
    /\ Task(t).kind = "ai_images" /\ Task(t).pc = "ai_prompts"
    /\ AiCanRun(t)
    /\ \E ok \in BOOLEAN :
          /\ (Task(t).segs = <<>>) => ok
          /\ (Task(t).segs # <<>> /\ ~Task(t).text_key) => ~ok
          /\ IF ok
             THEN /\ Advance(t, [Task(t) EXCEPT !.pc = "ai_batch"])
                  /\ running' = AiYield(t, Task(t).segs)
             ELSE /\ Advance(t, [Task(t) EXCEPT !.raised = TRUE,
                                                !.query_fault = TRUE,
                                                !.key_fault = ~Task(t).text_key,
                                                !.pc = "outer_failed"])
                  /\ running' = t
    /\ UNCHANGED <<segVars, callVars, searchVars, job, content, concat>>

\* What happens to the image of one prompt
AiFates == {"no_image", "upload_failed", "add_content_failed", "stored"}
\* supabase_storage.upload_image raises before anything is stored
AiStored(fate) == fate = "stored" /\ ~UploadImageRaises

RECURSIVE AiContent(_, _, _)
AiContent(fates, segs, k) ==
    IF k > Len(segs) THEN <<>>
    ELSE (IF AiStored(fates[k])
          THEN <<ContentRecord("ai_image", ImageRecordDuration(segs[k]), k, segs[k])>>
          ELSE <<>>) \o AiContent(fates, segs, k + 1)

\* generate_ai_images_batch returns and the result loop runs: one section
\* per (query, image path) pair, blank when the image is missing, the upload
\* fails or add_content raises; then the processed count is written
AiBatch(t) ==
    /\ Task(t).kind = "ai_images" /\ Task(t).pc = "ai_batch"
    /\ AiCanRun(t)
    /\ \E fates \in [1..Len(Task(t).segs) -> AiFates] :
          LET new == AiContent(fates, Task(t).segs, 1)
          IN  /\ content' = content \o new
              /\ job' = [job EXCEPT !.processed_segment_count = Len(new),
                                    !.video_segments_completed = @ + Len(new)]
              /\ Advance(t, [Task(t) EXCEPT
                                !.idx = Len(Task(t).segs) + 1,
                                !.sections = [k \in 1..Len(Task(t).segs) |-> k],
                                !.processed_count = Len(new),
                                !.seg_fault = Len(new) < Len(Task(t).segs),
                                !.pc = "outer_result"])
    /\ running' = t
    /\ UNCHANGED <<segVars, callVars, searchVars, concat>>

\* process_mixed_content up to its segment loop: status processing, segment
\* count, processed count 0, the segments
StartMixedContent(t) ==
    /\ running = 0
    /\ Task(t).kind = "mixed" /\ Task(t).pc = "queued"
    /\ running' = t
    /\ LET sg == MixedSegmentation(job.script_text, Task(t).videos_per_minute,
                                   Task(t).images_per_minute, Task(t).speaking_rate)
       IN  /\ job' = [job EXCEPT !.status = STATUS_PROCESSING,
                                 !.segment_count = sg.total_segments,
                                 !.processed_segment_count = 0]
           /\ Advance(t, [Task(t) EXCEPT
                             !.segments = sg.segments,
                             !.segs = sg.segment_durations,
                             !.idx = 1,
                             !.pc = IF sg.segment_durations = <<>> THEN "mixed_result"
                                    ELSE "mixed_segment"])
    /\ UNCHANGED <<segVars, callVars, searchVars, content, concat>>

\* One iteration of the segment loop of the mixed pipeline.  A raising
\* generate_text, and create_content_record after a video was found, end in
\* the blank section of the per-segment `except`; the image branch catches
\* the AttributeError itself.  Every other path writes the processed count.
MixedSegment(t) ==
    /\ running = t
    /\ Task(t).kind = "mixed" /\ Task(t).pc = "mixed_segment"
    /\ \E use_video \in BOOLEAN, query_ok \in BOOLEAN, ok \in BOOLEAN, hits \in JobResponses :
          LET k == Task(t).idx
              fn == IF use_video THEN SearchVideosFn(Task(t).search_provider)
                    ELSE SearchImagesFn(Task(t).search_provider)
              r == SearchFn(fn, ok, hits, used_urls,
                            IF use_video THEN VIDEO_PER_PAGE ELSE IMAGE_NUM_RESULTS)
              key_raises == query_ok /\ ~Task(t).search_key /\ KeyChecked(fn)
              searched == query_ok /\ ~key_raises
              found == searched /\ r.out # <<>>
              blank == \/ ~query_ok
                       \/ (use_video /\ key_raises)
                       \/ (use_video /\ found /\ CreateContentRecordRaises)
          IN  /\ ((k - 1) % 3 = 0) => use_video
              /\ ~(searched /\ ok) => hits = <<>>
              /\ ~searched => ok
              /\ ~Task(t).text_key => ~query_ok
              /\ (searched /\ ~Task(t).search_key) => ~ok
              /\ IF searched
                 THEN Returned(fn, "done", hits, r, NoSearch)
                 ELSE UNCHANGED searchVars
              /\ content' = IF found /\ ~CreateContentRecordRaises
                            THEN Append(content,
                                   ContentRecord(IF use_video THEN "video" ELSE "image",
                                                 Rat(5, 1), k, Task(t).segs[k]))
                            ELSE content
              /\ job' = IF blank THEN job
                        ELSE [job EXCEPT !.processed_segment_count = k]
              /\ Advance(t, [Task(t) EXCEPT
                                !.idx = k + 1,
                                !.sections = Append(@, k),
                                !.seg_fault = @ \/ ~found \/ CreateContentRecordRaises,
                                !.key_fault = @ \/ key_raises \/ ~Task(t).text_key,
                                !.query_fault = @ \/ ~query_ok,
                                !.pc = IF k = Len(Task(t).segs) THEN "mixed_result"
                                       ELSE "mixed_segment"])
    /\ UNCHANGED <<segVars, callVars, running, concat>>

\* process_mixed_content after its loop: update_job_result, whose
\* AttributeError is caught by the `except` (error, status failed)
MixedResult(t) ==
    /\ running = t
    /\ Task(t).kind = "mixed" /\ Task(t).pc = "mixed_result"
    /\ job' = IF UpdateJobResultRaises
              THEN [job EXCEPT !.error = TRUE, !.status = STATUS_FAILED]
              ELSE [job EXCEPT !.video_segments_completed = 1,
                               !.status = STATUS_COMPLETED,
                               !.concatenated_video_status = CONCAT_PENDING]
    /\ Advance(t, [Task(t) EXCEPT !.pc = "finished"])
    /\ running' = 0
    /\ UNCHANGED <<segVars, callVars, searchVars, content, concat>>

\* The five writes of restart_job before it queues the pipeline
ResetJobKeepsProgress(j) ==
    [j EXCEPT !.status = STATUS_PENDING,
              !.segment_count = 0,
              !.video_segments_completed = 0,
              !.concatenated_video_status = CONCAT_NOT_STARTED,
              !.restarts = @ + 1]
ResetJob(j) ==
    [j EXCEPT !.status = STATUS_PENDING,
              !.segment_count = 0,
              !.processed_segment_count = 0,
              !.video_segments_completed = 0,
              !.concatenated_video_status = CONCAT_NOT_STARTED,
              !.restarts = @ + 1]

\* POST /api/process-script/restart.  A job without script text raises
\* ValueError, which the handler's `except` turns into error + status failed.
\* Otherwise: status pending, the three counts 0, concatenation status
\* not_started, and the pipeline of the job's stored mode is queued with the
\* default parameters (images mode: provider "pexels", the stock pipeline).
RestartJob ==
    /\ job # NoJob
    /\ running = 0
    /\ job.restarts < MaxRestarts
    /\ IF job.script_text = <<>>
       THEN /\ job' = [job EXCEPT !.error = TRUE, !.status = STATUS_FAILED,
                                  !.restarts = @ + 1]
            /\ UNCHANGED tasks
       ELSE /\ job' = ResetJob(job)
            /\ \E env \in EnvsAfter(Task(Len(tasks))) :
                  tasks' = Append([t \in DOMAIN tasks |->
                                      [Task(t) EXCEPT !.superseded =
                                          @ \/ Task(t).pc \notin {"queued", "finished"}]],
                                  NewTask(PipelineOf(job.mode, "pexels"),
                                          DEFAULT_VIDEOS_PER_MINUTE,
                                          DEFAULT_IMAGES_PER_MINUTE,
                                          "pexels", WORDS_PER_MINUTE, env))
    /\ UNCHANGED <<segVars, callVars, searchVars, content, running, concat>>

\* supabase_db.update_concatenated_video_status(job_id, status)
update_concatenated_video_status_skipped(j, status) == j
update_concatenated_video_status(j, status) ==
    [j EXCEPT !.concatenated_video_status = status]

\* supabase_db.update_job_video_url(job_id, absolute_path)
update_job_video_url_skipped(j) == j
update_job_video_url(j) == [j EXCEPT !.video_url = TRUE]

\* POST /api/process-script/mark-segments-completed: only for a completed job
MarkSegmentsCompleted ==
    /\ job # NoJob
    /\ running = 0
    /\ job.status = STATUS_COMPLETED
    /\ job' = [job EXCEPT !.video_segments_completed = Len(content),
                          !.concatenated_video_status = CONCAT_PENDING]
    /\ UNCHANGED <<segVars, callVars, searchVars, content, tasks, running, concat>>

\* POST /api/concatenate-videos/from-job: the job exists and has content; a
\* concatenation in progress, or a finished one whose file still exists, is
\* answered without a new task.  Otherwise status processing and a task.
ConcatenateFromJob ==
    /\ job # NoJob
    /\ running = 0
    /\ content # <<>>
    /\ concat.launched < MaxConcats
    /\ job.concatenated_video_status # CONCAT_PROCESSING
    /\ \E file_exists \in BOOLEAN :
          ~(job.concatenated_video_status = CONCAT_COMPLETED
            /\ job.video_url /\ file_exists)
    /\ job' = [job EXCEPT !.concatenated_video_status = CONCAT_PROCESSING]
    /\ concat' = [concat EXCEPT !.pending = @ + 1, !.launched = @ + 1]
    /\ UNCHANGED <<segVars, callVars, searchVars, content, tasks, running>>

\* process_job_concatenation_task ends: the video path and status completed,
\* or (no item could be processed, ffmpeg failed) status failed
ConcatenationTaskEnds ==
    /\ running = 0
    /\ concat.pending > 0
    /\ \E ok \in BOOLEAN :
          job' = IF ok
                 THEN [update_job_video_url(job) EXCEPT
                          !.concatenated_video_status = CONCAT_COMPLETED]
                 ELSE [job EXCEPT !.concatenated_video_status = CONCAT_FAILED]
    /\ concat' = [concat EXCEPT !.pending = @ - 1]
    /\ UNCHANGED <<segVars, callVars, searchVars, content, tasks, running>>

\* A regeneration task as POST /api/process-script/regenerate queues it: the
\* row's id and content type, and, once it has run, what it computed
\* (new_content_url None: no new URL) and whether update_content wrote it
None == <<"none">>
NewRegeneration(content_id, content_type, env) ==
    NewTask("regenerate", DEFAULT_VIDEOS_PER_MINUTE, DEFAULT_IMAGES_PER_MINUTE,
            "pexels", WORDS_PER_MINUTE, env)
      @@ [ content_id |-> content_id,
           content_type |-> content_type,
           new_content_url |-> None,
           thumbnail_url |-> None,
           duration |-> None,
           updated |-> FALSE ]

Regenerations == {t \in DOMAIN tasks : Task(t).kind = "regenerate"}

\* POST /api/process-script/regenerate: the row and the job exist; the
\* task is queued with the row's content type
RegenerateContent ==
    /\ job # NoJob
    /\ running = 0
    /\ Cardinality(Regenerations) < MaxRegens
    /\ \E content_id \in DOMAIN content, env \in EnvsAfter(Task(Len(tasks))) :
          tasks' = Append(tasks, NewRegeneration(content_id,
                                                 content[content_id].content_type, env))
    /\ UNCHANGED <<segVars, callVars, searchVars, job, content, running, concat>>

\* update_content: supabase_url, thumbnail and duration of the row with the
\* id, in one UPDATE
update_content_all_rows(rows, content_id, supabase_url, thumbnail, duration) ==
    [i \in DOMAIN rows |->
        [rows[i] EXCEPT !.supabase_url = supabase_url, !.thumbnail = thumbnail,
                        !.duration = duration]]
update_content(rows, content_id, supabase_url, thumbnail, duration) ==
    [rows EXCEPT ![content_id] =
        [@ EXCEPT !.supabase_url = supabase_url, !.thumbnail = thumbnail,
                  !.duration = duration]]

\* What happens to the first search result (or the generated image) of a
\* regeneration
RegenerationFates == {"stored", "download_failed", "upload_failed"}
\* the duration regenerate_image_content and regenerate_ai_image_content
\* return
REGENERATED_IMAGE_DURATION == 5

\* The end of process_content_regeneration: update_content when there is a
\* new URL (its exception is swallowed: the row is then as before)
RegenerationResult(t, new_content_url, thumbnail_url, duration) ==
    \E update_ok \in BOOLEAN :
        LET updated == new_content_url # None /\ update_ok
        IN  /\ new_content_url = None => update_ok
            /\ content' = IF updated
                          THEN update_content(content, Task(t).content_id,
                                              new_content_url, thumbnail_url, duration)
                          ELSE content
            /\ Advance(t, [Task(t) EXCEPT !.pc = "finished",
                                          !.new_content_url = new_content_url,
                                          !.thumbnail_url = thumbnail_url,
                                          !.duration = duration,
                                          !.updated = updated,
                                          !.key_fault = ~Task(t).search_key /\
                                              Task(t).content_type # "ai_image"])

\* regenerate_video_content / regenerate_image_content: one search with
\* Pexels; the first result is downloaded and uploaded.  A missing key, an
\* empty result and a failed download or upload give no new URL.
RegenerateStock(t) ==
    LET video == Task(t).content_type = "video"
        fn == IF video THEN "pexels_videos" ELSE "pexels_images"
    IN  IF ~Task(t).search_key
        THEN /\ RegenerationResult(t, None, None, None)
             /\ UNCHANGED searchVars
        ELSE \E ok \in BOOLEAN, hits \in JobResponses, fate \in RegenerationFates,
                provider_duration \in VideoDurations :
             LET r == SearchFn(fn, ok, hits, used_urls,
                               IF video THEN VIDEO_PER_PAGE ELSE IMAGE_NUM_RESULTS)
                 url == IF r.out = <<>> THEN 0 ELSE r.out[1]
                 found == url # 0 /\ fate = "stored"
             IN  /\ ~ok => hits = <<>>
                 /\ url = 0 => fate = "stored"
                 /\ ~(found /\ video) => provider_duration = NoDuration
                 /\ Returned(fn, "done", hits, r, NoSearch)
                 /\ IF found
                    THEN RegenerationResult(t, <<"regenerated_upload", t>>,
                            IF video THEN <<"regenerated_picture", t>>
                            ELSE <<"regenerated_upload", t>>,
                            IF video THEN Rat(provider_duration, 1)
                            ELSE Rat(REGENERATED_IMAGE_DURATION, 1))
                    ELSE RegenerationResult(t, None, None, None)

\* regenerate_ai_image_content: the image is generated and uploaded; a
\* failure of either gives no new URL.  The dedup set is not involved.
RegenerateAiImage(t) ==
    /\ \E fate \in RegenerationFates :
          IF fate = "stored"
          THEN RegenerationResult(t, <<"regenerated_upload", t>>,
                                  <<"regenerated_upload", t>>,
                                  Rat(REGENERATED_IMAGE_DURATION, 1))
          ELSE RegenerationResult(t, None, None, None)
    /\ UNCHANGED searchVars

\* process_content_regeneration: the background task of a regeneration.  Its
\* only write is update_content; the job is not touched.
ProcessContentRegeneration(t) ==
    /\ running = 0
    /\ Task(t).kind = "regenerate" /\ Task(t).pc = "queued"
    /\ IF Task(t).content_type = "ai_image"
       THEN RegenerateAiImage(t)
       ELSE RegenerateStock(t)
    /\ UNCHANGED <<segVars, callVars, job, running, concat>>

Next ==
    \/ ProcessScript
    \/ \E t \in DOMAIN tasks : StartVideoContent(t)
    \/ \E t \in DOMAIN tasks : StartImageContent(t)
    \/ \E t \in DOMAIN tasks : SegmentStock(t)
    \/ \E t \in DOMAIN tasks : GenerateQueries(t)
    \/ \E t \in DOMAIN tasks : ResolveVideoSegment(t)
    \/ \E t \in DOMAIN tasks : ResolveImageSegment(t)
    \/ \E t \in DOMAIN tasks : VideosInnerCompleted(t)
    \/ \E t \in DOMAIN tasks : VideoContentCompleted(t)
    \/ \E t \in DOMAIN tasks : ImagesInnerCompleted(t)
    \/ \E t \in DOMAIN tasks : ImageContentResult(t)
    \/ \E t \in DOMAIN tasks : InnerFailed(t)
    \/ \E t \in DOMAIN tasks : OuterFailed(t)
    \/ \E t \in DOMAIN tasks : AiSegment(t)
    \/ \E t \in DOMAIN tasks : AiPrompts(t)
    \/ \E t \in DOMAIN tasks : AiBatch(t)
    \/ \E t \in DOMAIN tasks : StartMixedContent(t)
    \/ \E t \in DOMAIN tasks : MixedSegment(t)
    \/ \E t \in DOMAIN tasks : MixedResult(t)
    \/ RestartJob
    \/ MarkSegmentsCompleted
    \/ ConcatenateFromJob
    \/ ConcatenationTaskEnds

Spec == Init /\ [][Next]_vars

\* A task whose pipeline returned its list of content sections
ResultEmitted(t) ==
    /\ ~Task(t).raised
    /\ Task(t).pc \in {"inner_done", "outer_done", "outer_result", "mixed_result",
                       "finished"}

\* C2 (as claimed): without a restart, completed and failed are terminal job
\* statuses in every mode: a completed job is never afterwards failed,
\* processing or pending, and a failed job never changes its status.
C2_TerminalStatuses ==
    [][(job # NoJob /\ job' # NoJob /\ job'.restarts = 0) =>
          /\ job.status = STATUS_COMPLETED => job'.status = STATUS_COMPLETED
          /\ job.status = STATUS_FAILED => job'.status = STATUS_FAILED]_vars

\* C3 (as claimed): in every mode the job's status is set to processing
\* before it is set to completed: no step takes a job from pending directly
\* to completed.
C3_ProcessingBeforeCompleted ==
    [][(job # NoJob /\ job' # NoJob) =>
          ~(job.status = STATUS_PENDING /\ job'.status = STATUS_COMPLETED)]_vars

\* C4 (as claimed): the concatenation status leaves not_started, and the
\* from-job operation launches a concatenation task, only while the job's
\* status is completed.
C4_ConcatenationOnlyWhenCompleted ==
    [][(job # NoJob /\ job' # NoJob) =>
          /\ (/\ job.concatenated_video_status = CONCAT_NOT_STARTED
              /\ job'.concatenated_video_status # CONCAT_NOT_STARTED)
                => job'.status = STATUS_COMPLETED
          /\ concat'.launched > concat.launched => job.status = STATUS_COMPLETED]_vars

\* C5 (as claimed): in videos and (stock) images mode, a job whose only
\* failures were confined to the media resolution of single segments has
\* every segment processed and ends in status completed, never failed.
C5_SegmentFailureNeverFailsJob ==
    \A t \in DOMAIN tasks :
        (/\ job.restarts = 0
         /\ Task(t).kind \in {"videos", "images"}
         /\ Task(t).pc = "finished"
         /\ Task(t).seg_fault
         /\ ~Task(t).raised)
            => /\ Task(t).idx = Len(Task(t).segs) + 1
               /\ job.status = STATUS_COMPLETED

\* C6 (as claimed): the processing result holds exactly one content section
\* per segment, tagged with the segment's index, also when search, download
\* or upload failed for the segment; the sections are as many as the segments
\* and in ascending index order.
C6_OneSectionPerSegment ==
    \A t \in DOMAIN tasks :
        ResultEmitted(t) => Task(t).sections = [k \in 1..Len(Task(t).segs) |-> k]

\* C7 (as claimed): on every content record created during processing, video
\* and image records alike, the stored duration (the normalization target of
\* the concatenation step) equals the target duration the Segmenter computed
\* for the record's segment.
C7_RecordDurationIsSegmentTarget ==
    \A i \in DOMAIN content : RatEq(item_duration(content[i]), content[i].target)

\* A task that has run the Segmenter
Segmented(t) == Task(t).pc \notin {"queued", "segment", "ai_segment"}

\* What, besides the script text, a task's pipeline passes to its Segmenter
SegmenterInput(t) ==
    [ kind |-> Task(t).kind,
      content_per_minute |->
          CASE Task(t).kind = "videos" -> Task(t).videos_per_minute
            [] Task(t).kind \in {"images", "ai_images"} -> Task(t).images_per_minute
            [] OTHER -> Task(t).videos_per_minute + Task(t).images_per_minute,
      speaking_rate |-> Task(t).speaking_rate ]

C13_SupersededWorkIsHarmless ==
    [][\A t \in DOMAIN tasks :
          (Task(t).superseded /\ tasks'[t] # tasks[t])
             => /\ job'.status = job.status
                /\ job'.segment_count = job.segment_count
                /\ job'.processed_segment_count = job.processed_segment_count
                /\ job'.video_segments_completed = job.video_segments_completed]_vars

\* The step of a restart_job call that returns successfully
RestartSucceeded ==
    /\ job # NoJob
    /\ job'.restarts = job.restarts + 1
    /\ job.script_text # <<>>

ClearUrlCacheCalled ==
    /\ running = 0
    /\ ClearUrlCache

NextOps ==
    \/ ProcessScript
    \/ \E t \in DOMAIN tasks : StartVideoContent(t)
    \/ \E t \in DOMAIN tasks : StartImageContent(t)
    \/ \E t \in DOMAIN tasks : SegmentStock(t)
    \/ \E t \in DOMAIN tasks : GenerateQueries(t)
    \/ \E t \in DOMAIN tasks : ResolveVideoSegment(t)
    \/ \E t \in DOMAIN tasks : ResolveImageSegment(t)
    \/ \E t \in DOMAIN tasks : VideosInnerCompleted(t)
    \/ \E t \in DOMAIN tasks : VideoContentCompleted(t)
    \/ \E t \in DOMAIN tasks : ImagesInnerCompleted(t)
    \/ \E t \in DOMAIN tasks : ImageContentResult(t)
    \/ \E t \in DOMAIN tasks : InnerFailed(t)
    \/ \E t \in DOMAIN tasks : OuterFailed(t)
    \/ \E t \in DOMAIN tasks : AiSegment(t)
    \/ \E t \in DOMAIN tasks : AiPrompts(t)
    \/ \E t \in DOMAIN tasks : AiBatch(t)
    \/ \E t \in DOMAIN tasks : StartMixedContent(t)
    \/ \E t \in DOMAIN tasks : MixedSegment(t)
    \/ \E t \in DOMAIN tasks : MixedResult(t)
    \/ RestartJob
    \/ RegenerateContent
    \/ \E t \in DOMAIN tasks : ProcessContentRegeneration(t)
    \/ ClearUrlCacheCalled

SpecOps == Init /\ [][NextOps]_vars

\* The step in which regeneration task t runs
Regenerated(t) ==
    /\ t \in DOMAIN tasks
    /\ Task(t).kind = "regenerate"
    /\ Task(t).pc = "queued" /\ tasks'[t].pc = "finished"

\* the columns of a row that regeneration does not write
KeptColumns(row) ==
    [content_type |-> row.content_type, segment |-> row.segment, target |-> row.target]

\* C19: a regeneration changes at most the targeted row, in place: the rows
\* are as many as before, every other row is as before, the targeted row
\* keeps its position and its other columns, and the job is as before; what
\* update_content wrote are the new url, thumbnail and duration; when no new
\* URL was produced the targeted row is as before.
C19_RegenerationFrame ==
    [][\A t \in DOMAIN tasks :
          Regenerated(t) =>
             LET id == Task(t).content_id
                 done == tasks'[t]
             IN  /\ job' = job
                 /\ Len(content') = Len(content)
                 /\ \A i \in DOMAIN content : i # id => content'[i] = content[i]
                 /\ KeptColumns(content'[id]) = KeptColumns(content[id])
                 /\ done.new_content_url = None => content'[id] = content[id]
                 /\ done.updated =>
                       /\ done.new_content_url # None
                       /\ content'[id].supabase_url = done.new_content_url
                       /\ content'[id].thumbnail = done.thumbnail_url
                       /\ content'[id].duration = done.duration
                       /\ content'[id].supabase_url # content[id].supabase_url
                 /\ ~done.updated => content'[id] = content[id]]_vars

\* C19 witness: the job has two rows and a regeneration has rewritten the
\* first of them, leaving the second as its segment's iteration stored it.
C19_Witness ==
    /\ Len(content) = 2
    /\ \E t \in Regenerations :
          /\ Task(t).pc = "finished" /\ Task(t).updated
          /\ Task(t).content_id = 1
          /\ content[1].supabase_url = Task(t).new_content_url
          /\ content[1].thumbnail = Task(t).thumbnail_url
          /\ content[1].duration = Task(t).duration
    /\ content[2].supabase_url = SegmentUpload(content[2].segment)

\* C20: the dedup set is append-only: a step that is not a call of
\* clear_url_cache (a search of a pipeline or of a regeneration, the end of a
\* job in status completed or failed, a restart, a regeneration request)
\* removes no URL from it, and a call of clear_url_cache leaves it empty.
C20_DedupSetAppendOnly ==
    [][/\ ClearUrlCacheCalled => used_urls' = {}
       /\ ~ClearUrlCacheCalled => used_urls \subseteq used_urls']_vars

\* C20 witness: the job's first run has ended, the job was restarted and its
\* second run has ended with the job completed or failed, a regeneration
\* has run, and the URL the first run used is still in the dedup set.
C20_Witness ==
    /\ job # NoJob
    /\ job.restarts = 1
    /\ job.status \in {STATUS_COMPLETED, STATUS_FAILED}
    /\ Len(tasks) = 3
    /\ \A t \in DOMAIN tasks : Task(t).pc = "finished"
    /\ Regenerations # {}
    /\ content # <<>>
    /\ used_urls \ {0} # {}


(***************************************************************************)
(* Specification SpecConcat: one run of process_job_concatenation_task     *)
(* (routes/concatenate_videos.py) with concatenate_videos                  *)
(* (utils/video_processing.py), from the moment from-job has launched it.  *)
(* A content item is identified by its row's position in `content`, which  *)
(* is the order of insertion, that is, of created_at.                      *)
(***************************************************************************)
created_at(item) == item

\* the orders in which n rows can be returned
RowOrders(n) ==
    {p \in [1..n -> 1..n] : \A i, j \in 1..n : p[i] = p[j] => i = j}

\* content_items.sort(key=lambda x: x.get('created_at', ''))
SortByCreatedAtNoSort(items) == items
SortByCreatedAt(items) ==
    LET keys == {created_at(items[j]) : j \in 1..Len(items)}
    IN  [k \in 1..Len(items) |->
            CHOOSE it \in {items[j] : j \in 1..Len(items)} :
                created_at(it) = Nth(keys, k)]

\* what the verification loop of concatenate_videos finds for a clip
ClipStates == {"valid", "missing", "bad_duration", "probe_error"}

\* the clips of a list that pass the verification, in the order of the list
ValidVideos(video_list, clip_state) ==
    LET kept == SelectSeq([k \in 1..Len(video_list) |-> k],
                          LAMBDA k : clip_state[k] = "valid")
    IN  [j \in 1..Len(kept) |-> video_list[kept[j]]]

\* concatenate_videos(video_list, output_path): the two checks, the playlist
\* file, ffmpeg; error "none" when it returns
concatenate_videos_unchecked(video_list, clip_state, encoder_ok) ==
    [ valid_videos |-> ValidVideos(video_list, clip_state),
      playlist |-> ValidVideos(video_list, clip_state),
      encoder_invoked |-> TRUE,
      output_file |-> encoder_ok,
      error |-> IF encoder_ok THEN "none" ELSE "encoder_failed" ]
concatenate_videos(video_list, clip_state, encoder_ok) ==
    IF video_list = <<>>
    THEN [ valid_videos |-> <<>>, playlist |-> <<>>, encoder_invoked |-> FALSE,
           output_file |-> FALSE, error |-> "no_videos" ]
    ELSE LET valid_videos == ValidVideos(video_list, clip_state)
         IN  IF valid_videos = <<>>
             THEN [ valid_videos |-> <<>>, playlist |-> <<>>,
                    encoder_invoked |-> FALSE, output_file |-> FALSE,
                    error |-> "no_valid_videos" ]
             ELSE [ valid_videos |-> valid_videos,
                    playlist |-> valid_videos,
                    encoder_invoked |-> TRUE,
                    output_file |-> encoder_ok,
                    error |-> IF encoder_ok THEN "none" ELSE "encoder_failed" ]

\* The task as background_tasks.add_task queues it, with the rows that
\* get_job_content returned (in the order the database chose).
\*   recorded, video_url_at_launch: history
NewRun(content_items, video_url) ==
    [ pc |-> "queued",
      content_items |-> content_items,
      i |-> 0,
      processed_files |-> <<>>,
      valid_videos |-> <<>>,
      playlist |-> <<>>,
      encoder_invoked |-> FALSE,
      output_file |-> FALSE,
      error |-> "none",
      recorded |-> FALSE,
      video_url_at_launch |-> video_url ]

\* The rows of a job processed by a single run: one per resolved segment, in
\* segment order
RECURSIVE RowsOf(_, _, _)
RowsOf(S, content_type, k) ==
    IF k > MaxClips THEN <<>>
    ELSE (IF k \in S
          THEN <<ContentRecordOf(content_type, Rat(MIN_VIDEO_DURATION, 1), k,
                                 Rat(MIN_VIDEO_DURATION, 1), 0)>>
          ELSE <<>>) \o RowsOf(S, content_type, k + 1)

\* The jobs from-job accepts in the model: a completed videos job, and an
\* images job with content (failed); a path of an earlier concatenation may
\* be recorded.
ConcatJobs ==
    {[create_job(JobText(MaxClips), mode) EXCEPT
         !.status = IF mode = "videos" THEN STATUS_COMPLETED ELSE STATUS_FAILED,
         !.error = (mode = "images"),
         !.segment_count = MaxClips,
         !.concatenated_video_status = CONCAT_PROCESSING,
         !.video_url = video_url] :
       mode \in {"videos", "images"}, video_url \in BOOLEAN}

InitConcat ==
    /\ SegIdle
    /\ SearchIdle
    /\ CallIdle
    /\ tasks = <<>>
    /\ running = 0
    /\ \E j \in ConcatJobs, S \in (SUBSET (1..MaxClips)) \ {{}} :
          LET rows == RowsOf(S, IF j.mode = "videos" THEN "video" ELSE "image", 1)
          IN  /\ job = [j EXCEPT !.processed_segment_count = Len(rows),
                                 !.video_segments_completed = Len(rows)]
              /\ content = rows
              /\ \E items \in RowOrders(Len(rows)) :
                    concat = [pending |-> 1, launched |-> 1,
                              run |-> NewRun(items, j.video_url)]

Run == concat.run
RunBecomes(new) == concat' = [concat EXCEPT !.run = new]

\* the sort by created_at before the item loop
ConcatSortItems ==
    /\ Run.pc = "queued"
    /\ RunBecomes([Run EXCEPT !.content_items = SortByCreatedAt(@),
                              !.i = 1,
                              !.pc = "process"])
    /\ UNCHANGED <<segVars, callVars, searchVars, job, content, tasks, running>>

\* One iteration of the item loop: download and standardize (a video) or
\* convert (an image); an exception skips the item.  After the last item,
\* `if not processed_files: raise ValueError`.
ConcatProcessItem ==
    /\ Run.pc = "process"
    /\ \E ok \in BOOLEAN :
          LET files == IF ok THEN Append(Run.processed_files, Run.content_items[Run.i])
                       ELSE Run.processed_files
              last == Run.i = Len(Run.content_items)
          IN  RunBecomes([Run EXCEPT
                             !.processed_files = files,
                             !.i = @ + 1,
                             !.error = IF last /\ files = <<>>
                                       THEN "no_valid_content" ELSE @,
                             !.pc = IF ~last THEN "process"
                                    ELSE IF files = <<>> THEN "failed"
                                    ELSE "concatenate"])
    /\ UNCHANGED <<segVars, callVars, searchVars, job, content, tasks, running>>

\* await concatenate_videos(processed_files, output_path)
ConcatConcatenate ==
    /\ Run.pc = "concatenate"
    /\ \E clip_state \in [1..Len(Run.processed_files) -> ClipStates],
          encoder_ok \in BOOLEAN :
          LET r == concatenate_videos(Run.processed_files, clip_state, encoder_ok)
          IN  /\ r.valid_videos = <<>> => encoder_ok
              /\ RunBecomes([Run EXCEPT
                                 !.valid_videos = r.valid_videos,
                                 !.playlist = r.playlist,
                                 !.encoder_invoked = r.encoder_invoked,
                                 !.output_file = r.output_file,
                                 !.error = r.error,
                                 !.pc = IF r.error = "none" THEN "record"
                                        ELSE "failed"])
    /\ UNCHANGED <<segVars, callVars, searchVars, job, content, tasks, running>>

\* The rest of the task: the duration of the output is read and the file is
\* copied (either may raise), then the path and status completed are written.
ConcatRecord ==
    /\ Run.pc = "record"
    /\ \E ok \in BOOLEAN :
          IF ok
          THEN /\ job' = update_concatenated_video_status(
                              update_job_video_url(job), CONCAT_COMPLETED)
               /\ concat' = [concat EXCEPT !.pending = @ - 1,
                                           !.run = [Run EXCEPT !.recorded = TRUE,
                                                               !.pc = "done"]]
          ELSE /\ RunBecomes([Run EXCEPT !.error = "copy_failed", !.pc = "failed"])
               /\ UNCHANGED job
    /\ UNCHANGED <<segVars, callVars, searchVars, content, tasks, running>>

\* the `except` of the task: concatenation status failed
ConcatFailed ==
    /\ Run.pc = "failed"
    /\ job' = update_concatenated_video_status(job, CONCAT_FAILED)
    /\ concat' = [concat EXCEPT !.pending = @ - 1, !.run = [Run EXCEPT !.pc = "done"]]
    /\ UNCHANGED <<segVars, callVars, searchVars, content, tasks, running>>

NextConcat ==
    \/ ConcatSortItems
    \/ ConcatProcessItem
    \/ ConcatConcatenate
    \/ ConcatRecord
    \/ ConcatFailed

SpecConcat == InitConcat /\ [][NextConcat]_vars

\* The task has ended with no clip that survived processing and verification
EndedWithoutClips == Run.pc = "done" /\ Run.valid_videos = <<>>

C16_NoClipFailsJob ==
    EndedWithoutClips => job.status = STATUS_FAILED /\ job.error

\* the positions of a sequence of items are strictly ascending under key
Ascending(items, key(_)) ==
    \A a, b \in 1..Len(items) : a < b => key(items[a]) < key(items[b])
SegmentOf(item) == content[item].segment

\* C17: the playlist handed to the encoder lists the clips in ascending
\* created_at order of their content records, which for a job processed by a
\* single run is ascending segment index; items dropped in processing or
\* verification do not reorder the surviving ones.
C17_OrderPreserved ==
    Run.pc \in {"record", "failed", "done"} =>
        /\ Ascending(Run.processed_files, created_at)
        /\ Ascending(Run.playlist, created_at)
        /\ Ascending(Run.playlist, SegmentOf)
        /\ \A k \in 1..Len(Run.playlist) :
              \E j \in 1..Len(Run.processed_files) :
                  Run.processed_files[j] = Run.playlist[k]

\* C17 witness: the database returned three rows out of created_at order,
\* the middle one was dropped, and the encoder got the other two in order.
C17_Witness ==
    /\ Run.pc = "done"
    /\ Run.encoder_invoked
    /\ Len(Run.content_items) = 3
    /\ Run.playlist = <<1, 3>>
    /\ Run.recorded

\* C18 (as claimed): when a required provider credential is missing (the
\* search provider's API key or the text-generation key), the call fails at
\* call time and the failure propagates: the job ends in status failed.
C18_MissingKeyFailsJob ==
    (/\ job # NoJob /\ job.restarts = 0
     /\ Len(tasks) = 1
     /\ Task(1).pc = "finished"
     /\ Task(1).key_fault)
        => job.status = STATUS_FAILED


(***************************************************************************)
(* Specification SpecRetry: one call of a retry loop on the event loop,    *)
(* next to the other coroutines of the loop (other jobs' tasks, request    *)
(* handlers).  The loops are _make_api_request_with_retry and              *)
(* download_image (utils/search_helpers.py) and the two video download     *)
(* loops of routes/process_script.py.  Each HTTP attempt is requests.get,  *)
(* a synchronous call, and each wait is time.sleep, a synchronous call:    *)
(* the coroutine that runs the loop keeps the event loop from its first    *)
(* attempt until it returns or raises.                                     *)
(***************************************************************************)
MAX_RETRIES == 3

RetryKinds == {"api_request", "image_download", "video_download",
               "regenerated_video_download"}
\* What an HTTP attempt ends in: a response that is accepted, a response
\* with status 429, a response with another error status, a network error
\* (both raise requests.exceptions.RequestException), and an exception of
\* another class (the body is not JSON, the file cannot be written)
AttemptOutcomes == {"ok", "http_429", "http_error", "network_error", "other_error"}

\* `retry_count += 1` of the branch the outcome takes.  In
\* _make_api_request_with_retry a 429 has its own branch; in the download
\* loops raise_for_status turns it into a RequestException.
RetryCountAfterNo429(outcome, retry_count) ==
    IF outcome \in {"http_error", "network_error"} THEN retry_count + 1
    ELSE retry_count
RetryCountAfter(outcome, retry_count) ==
    IF outcome \in {"http_429", "http_error", "network_error"} THEN retry_count + 1
    ELSE retry_count

\* One iteration of `while retry_count <= max_retries` up to its sleep: the
\* new retry_count and whether the iteration returns, raises or sleeps.
\* A 429 of the API request that exceeds the retries calls
\* raise_for_status inside the `try`, whose HTTPError the `except` counts
\* once more before it re-raises.
Iteration(kind, outcome, retry_count) ==
    LET count == RetryCountAfter(outcome, retry_count)
    IN  CASE outcome = "ok" -> [retry_count |-> count, pc |-> "returned"]
          [] outcome = "other_error" -> [retry_count |-> count, pc |-> "raised"]
          [] OTHER ->
               IF count > MAX_RETRIES
               THEN [retry_count |-> IF kind = "api_request" /\ outcome = "http_429"
                                     THEN count + 1 ELSE count,
                     pc |-> "raised"]
               ELSE [retry_count |-> count, pc |-> "sleep"]

NewRetry(kind) ==
    [ kind |-> kind, pc |-> "called", retry_count |-> 0,
      attempts |-> 0,        \* history: requests.get calls
      waits |-> 0,           \* history: time.sleep calls
      outcomes |-> <<>>,     \* history: what the attempts ended in
      others |-> 0 ]         \* history: steps of the other coroutines

InitRetry ==
    /\ SegIdle
    /\ SearchIdle
    /\ JobIdle
    /\ limiter = NoCall
    /\ std = NoCall
    /\ img = NoCall
    /\ batch = NoCall
    /\ \E kind \in RetryKinds : retry = NewRetry(kind)

\* the coroutine with the retry loop is scheduled and enters the loop
RetryCalled ==
    /\ retry.pc = "called"
    /\ retry' = [retry EXCEPT !.pc = "attempt"]
    /\ UNCHANGED <<segVars, searchVars, jobVars, limiter, std, img, batch>>

\* requests.get and what follows it in the iteration
RetryAttempt ==
    /\ retry.pc = "attempt"
    /\ retry.retry_count <= MAX_RETRIES
    /\ \E outcome \in AttemptOutcomes :
          LET it == Iteration(retry.kind, outcome, retry.retry_count)
          IN  retry' = [retry EXCEPT !.pc = it.pc,
                                     !.retry_count = it.retry_count,
                                     !.attempts = IntMin(AttemptCap, @ + 1),
                                     !.outcomes = IF Len(@) < AttemptCap
                                                  THEN Append(@, outcome) ELSE @]
    /\ UNCHANGED <<segVars, searchVars, jobVars, limiter, std, img, batch>>

\* time.sleep(delay) and the jump back to the loop's test
RetrySleep ==
    /\ retry.pc = "sleep"
    /\ retry' = [retry EXCEPT !.pc = "attempt", !.waits = IntMin(AttemptCap, @ + 1)]
    /\ UNCHANGED <<segVars, searchVars, jobVars, limiter, std, img, batch>>

\* the coroutine of the retry loop occupies the event loop: it was
\* scheduled and has neither returned nor raised (it awaits nothing)
LoopOccupied == retry.pc \in {"attempt", "sleep"}

\* Another coroutine of the event loop takes a step
OtherCoroutineStep ==
    /\ retry.pc # "none"
    /\ ~LoopOccupied
    /\ retry.others < MaxOtherSteps
    /\ retry' = [retry EXCEPT !.others = @ + 1]
    /\ UNCHANGED <<segVars, searchVars, jobVars, limiter, std, img, batch>>

NextRetry ==
    \/ RetryCalled
    \/ RetryAttempt
    \/ RetrySleep
    \/ OtherCoroutineStep

\* requests.get ends (in a response or an error) and time.sleep returns
SpecRetry ==
    /\ InitRetry /\ [][NextRetry]_vars
    /\ WF_vars(RetryCalled) /\ WF_vars(RetryAttempt) /\ WF_vars(RetrySleep)

RetryEnded == retry.pc \in {"returned", "raised"}

\* C21: every retry loop (the API request, the image download and the two
\* video downloads) ends, after at most 1 + MAX_RETRIES = 4 HTTP attempts
\* and at most MAX_RETRIES = 3 waits, whatever the attempts end in; when the
\* last attempt failed the loop has raised.
C21_RetryLoopTerminates ==
    /\ [](/\ retry.attempts <= MAX_RETRIES + 1
          /\ retry.waits <= MAX_RETRIES
          /\ (RetryEnded /\ retry.outcomes[Len(retry.outcomes)] # "ok")
                => retry.pc = "raised")
    /\ <>RetryEnded

\* C21 witness: the API request was rate limited, failed twice in other
\* ways and was rate limited again: four attempts, three waits, raised.
C21_Witness ==
    /\ retry.kind = "api_request"
    /\ retry.outcomes = <<"http_429", "network_error", "http_error", "http_429">>
    /\ retry.attempts = 4 /\ retry.waits = 3
    /\ retry.pc = "raised"

\* C25 (as claimed): a retry-with-backoff delay suspends only the task that
\* is retrying: while the loop waits between two attempts, another coroutine
\* of the event loop can take a step.
C25_BackoffSuspendsOnlyCaller ==
    (retry.pc = "sleep" /\ retry.others < MaxOtherSteps)
        => ENABLED OtherCoroutineStep

\* C22: in the videos and the images pipeline the search is called at most
\* twice for a segment: once with the generated query and, exactly when that
\* call returned no result, once more with the simpler query (the first two
\* words); there is one such entry per resolved segment.
C22_AtMostTwoSearchesPerSegment ==
    \A t \in DOMAIN tasks :
        Task(t).kind \in {"videos", "images"} =>
            /\ Task(t).pc \in {"resolve", "inner_done"} =>
                  Len(Task(t).searches) = Task(t).idx - 1
            /\ \A k \in DOMAIN Task(t).searches :
                  LET calls == Task(t).searches[k]
                  IN  /\ Len(calls) \in {1, 2}
                      /\ calls[1].query = "query"
                      /\ Len(calls) = 2 <=>
                            (~calls[1].raised /\ calls[1].results = 0)
                      /\ Len(calls) = 2 => calls[2].query = "simple_query"

\* C22 witness: the first videos run resolved a segment with one search,
\* which returned a result; the restarted run's first search for the segment
\* returned nothing and it searched once more, with the simpler query.
C22_Witness ==
    /\ Len(tasks) = 2
    /\ Task(1).kind = "videos" /\ Task(2).kind = "videos"
    /\ Task(1).searches # <<>> /\ Task(2).searches # <<>>
    /\ Len(Task(1).searches[1]) = 1 /\ Task(1).searches[1][1].results = 1
    /\ Len(Task(2).searches[1]) = 2
    /\ Task(2).searches[1][1].results = 0
    /\ Task(2).searches[1][2].query = "simple_query"

\* C23 (as claimed): in every mode a step of a processing task advances the
\* processed-segment counter or the media-ready counter only when it has
\* stored a segment's media (the segment's content record is created in the
\* step); a segment for which no media was obtained leaves both unchanged.
C23_CountersCountStoredMedia ==
    [][(job # NoJob /\ job' # NoJob /\ tasks' # tasks) =>
          ((\/ job'.processed_segment_count > job.processed_segment_count
            \/ job'.video_segments_completed > job.video_segments_completed)
              => Len(content') > Len(content))]_vars

\* C24 (as claimed): a query generation that fails for a segment is
\* segment-local: the run still emits a section for every segment and the
\* job ends in status completed.
C24_QueryFailureIsSegmentLocal ==
    \A t \in DOMAIN tasks :
        (/\ job.restarts = 0
         /\ Task(t).kind # "regenerate"
         /\ Task(t).pc = "finished"
         /\ Task(t).query_fault)
            => /\ Len(Task(t).sections) = Len(Task(t).segs)
               /\ job.status = STATUS_COMPLETED

\* C27 (as claimed): the run that restart_job queues rebuilds the segment
\* sequence of the original run (texts, count and target durations),
\* whatever speaking rate, per-minute values and provider the original
\* request had.
C27_RestartRebuildsSegments ==
    (/\ Len(tasks) >= 2
     /\ Task(2).kind # "regenerate"
     /\ Segmented(1) /\ Segmented(2))
        => /\ Task(2).segments = Task(1).segments
           /\ Task(2).segs = Task(1).segs

(***************************************************************************)
(* Specification SpecLimiter: concurrent callers of check_rate_limit       *)
(* (utils/image_generation.py), as generate_ai_image makes them from the   *)
(* coroutines that asyncio.gather runs.  Time is time.time() in seconds,   *)
(* observed every TimeStep seconds.  Between `async with lock` and the     *)
(* asyncio.sleep, and between the sleep and the release, the holder does   *)
(* not await: each of the two parts is one step.                           *)
(***************************************************************************)
Unlimited == -1
\* provider_rate_limits: calls and period of each provider
provider_rate_limits(provider) ==
    CASE provider = "openai" -> [calls |-> 5, period |-> 60]
      [] provider = "google" -> [calls |-> 5, period |-> 60]
      [] provider = "minimax" -> [calls |-> Unlimited, period |-> 60]
AIImageProviders == {"openai", "google", "minimax"}
RateLimited == {p \in AIImageProviders : provider_rate_limits(p).calls # Unlimited}

\* [ts for ts in timestamps if current_time - ts < period]
Recent(timestamps, current_time, period) ==
    SelectSeq(timestamps, LAMBDA ts : current_time - ts < period)

\* wait_time = period - (current_time - timestamps[0])
WaitTimeNone(period, current_time, oldest) == 0
WaitTime(period, current_time, oldest) == period - (current_time - oldest)

NoHolder == [pc |-> "none"]
InitLimiter ==
    /\ SegIdle
    /\ SearchIdle
    /\ JobIdle
    /\ retry = NoCall
    /\ std = NoCall
    /\ img = NoCall
    /\ batch = NoCall
    /\ limiter =
          [ pc |-> "serving",
            now |-> 0,
            timestamps |-> [p \in AIImageProviders |-> <<>>],
            locked |-> [p \in AIImageProviders |-> FALSE],
            waiting |-> [p \in AIImageProviders |-> 0],   \* callers at `async with`
            holder |-> [p \in AIImageProviders |-> NoHolder],
            calls |-> 0,                                   \* history: calls made
            recorded |-> [p \in AIImageProviders |-> <<>>], \* history: every
                                                  \* timestamp appended
            delayed |-> [p \in AIImageProviders |-> <<>>] ] \* history: for each
                                                  \* caller that slept, the
                                                  \* oldest entry it saw and
                                                  \* the timestamp it appended

\* time passes
ClockAdvances ==
    /\ limiter.pc = "serving"
    /\ limiter.now + TimeStep <= MaxTime
    /\ limiter' = [limiter EXCEPT !.now = @ + TimeStep]
    /\ UNCHANGED <<segVars, searchVars, jobVars, retry, std, img, batch>>

\* check_rate_limit(provider) is called: an unlimited provider returns at
\* once, the others come to `async with lock`
CheckRateLimitCalled ==
    /\ limiter.pc = "serving"
    /\ limiter.calls < MaxCallers
    /\ \E provider \in AIImageProviders :
          limiter' = [limiter EXCEPT
                         !.calls = @ + 1,
                         !.waiting[provider] =
                             IF provider \in RateLimited THEN @ + 1 ELSE @]
    /\ UNCHANGED <<segVars, searchVars, jobVars, retry, std, img, batch>>

\* A caller acquires the free lock, drops the old timestamps and either
\* appends its own and releases the lock, or finds the window full and
\* sleeps with the lock held.
LockAcquired ==
    /\ limiter.pc = "serving"
    /\ \E provider \in RateLimited :
          /\ ~limiter.locked[provider]
          /\ limiter.waiting[provider] > 0
          /\ LET limit == provider_rate_limits(provider)
                 current_time == limiter.now
                 timestamps == limiter.timestamps[provider]
                 kept == Recent(timestamps, current_time, limit.period)
             IN  IF Len(kept) >= limit.calls
                 THEN limiter' = [limiter EXCEPT
                         !.waiting[provider] = @ - 1,
                         !.locked[provider] = TRUE,
                         !.timestamps[provider] = kept,
                         !.holder[provider] =
                             [pc |-> "sleeping",
                              timestamps |-> timestamps,
                              oldest |-> kept[1],
                              wake |-> current_time
                                  + WaitTime(limit.period, current_time, kept[1])]]
                 ELSE limiter' = [limiter EXCEPT
                         !.waiting[provider] = @ - 1,
                         !.timestamps[provider] = Append(kept, current_time),
                         !.recorded[provider] = Append(@, current_time)]
    /\ UNCHANGED <<segVars, searchVars, jobVars, retry, std, img, batch>>

\* asyncio.sleep(wait_time) is over (at its deadline or later): the holder
\* filters the list it read before the sleep, appends its timestamp and
\* releases the lock
SleepOver ==
    /\ limiter.pc = "serving"
    /\ \E provider \in RateLimited :
          LET h == limiter.holder[provider]
              current_time == limiter.now
              limit == provider_rate_limits(provider)
          IN  /\ h.pc = "sleeping"
              /\ current_time >= h.wake
              /\ limiter' = [limiter EXCEPT
                    !.locked[provider] = FALSE,
                    !.holder[provider] = NoHolder,
                    !.timestamps[provider] =
                        Append(Recent(h.timestamps, current_time, limit.period),
                               current_time),
                    !.recorded[provider] = Append(@, current_time),
                    !.delayed[provider] =
                        Append(@, [oldest |-> h.oldest, at |-> current_time])]
    /\ UNCHANGED <<segVars, searchVars, jobVars, retry, std, img, batch>>

NextLimiter ==
    \/ ClockAdvances
    \/ CheckRateLimitCalled
    \/ LockAcquired
    \/ SleepOver

SpecLimiter == InitLimiter /\ [][NextLimiter]_vars

\* how many of the timestamps lie in the window [from, from + period)
InWindow(timestamps, from, period) ==
    Cardinality({i \in DOMAIN timestamps :
                    timestamps[i] >= from /\ timestamps[i] < from + period})

\* C26: for each rate-limited provider the lock has one holder at a time
\* (a caller is in the locked part only with the lock taken); the provider's
\* timestamps, the list and all that were ever appended, never hold more
\* than `calls` entries in a window of `period` seconds (the windows that
\* start at an entry are the fullest ones); and a caller that
\* found the window full appended its timestamp only when the oldest entry
\* was at least `period` old.
C26_RateWindowRespected ==
    limiter.pc = "serving" =>
        \A provider \in RateLimited :
            LET limit == provider_rate_limits(provider)
            IN  /\ limiter.holder[provider] # NoHolder => limiter.locked[provider]
                /\ Len(limiter.timestamps[provider]) <= limit.calls
                /\ \A i \in DOMAIN limiter.timestamps[provider] :
                      InWindow(limiter.timestamps[provider],
                               limiter.timestamps[provider][i], limit.period)
                         <= limit.calls
                /\ \A i \in DOMAIN limiter.recorded[provider] :
                      InWindow(limiter.recorded[provider],
                               limiter.recorded[provider][i], limit.period)
                         <= limit.calls
                /\ \A k \in DOMAIN limiter.delayed[provider] :
                      limiter.delayed[provider][k].at
                         - limiter.delayed[provider][k].oldest >= limit.period

\* C26 witness: five calls of a provider were recorded at 0, 0, 0, 30 and
\* 30; a sixth caller found the window full at 30, slept until 60 with the
\* lock held while a seventh waited, and appended 60.
C26_Witness ==
    /\ limiter.pc = "serving"
    /\ limiter.recorded["openai"] = <<0, 0, 0, 30, 30, 60>>
    /\ limiter.timestamps["openai"] = <<30, 30, 60>>
    /\ limiter.delayed["openai"] = <<[oldest |-> 0, at |-> 60]>>
    /\ limiter.waiting["openai"] = 1

(***************************************************************************)
(* Specification SpecStd: one call of standardize_video                    *)
(* (utils/video_processing.py).  Durations are exact rationals.            *)
(***************************************************************************)
RatMin(a, b) == IF RatLt(b, a) THEN b ELSE a
RatDiv(a, b) == <<a[1] * b[2], a[2] * b[1]>>
RatMul(a, b) == <<a[1] * b[1], a[2] * b[2]>>
RatTimes(n, a) == <<n * a[1], a[2]>>
\* math.ceil(a / b) for positive a and b
RatCeilDiv(a, b) == ((a[1] * b[2]) + (a[2] * b[1]) - 1) \div (a[2] * b[1])
One == <<1, 1>>
Two == <<2, 1>>
Half == <<1, 2>>

StdModes == {"speed", "cut", "loop"}
StdDurations == {Rat(n, 10) : n \in 1..MaxTenths}

\* which of the three branches of standardize_video runs
Branch(mode, duration, target_duration) ==
    IF mode = "cut" /\ RatLt(target_duration, duration) THEN "cut"
    ELSE IF mode = "loop" /\ RatLt(duration, target_duration) THEN "loop"
    ELSE "speed"

\* loop_count = math.ceil(target_duration / duration)
LoopCountFloor(target_duration, duration) == RatFloorDiv(target_duration, duration)
LoopCount(target_duration, duration) == RatCeilDiv(target_duration, duration)

\* the loop file: one line per repetition of the input
LoopFile(loop_count) == [i \in 1..loop_count |-> "input_path"]

\* while remaining_factor > 1.0: tempo_factor = min(2.0, remaining_factor);
\* tempo_chain.append(...); remaining_factor /= tempo_factor
RECURSIVE TempoChain(_)
TempoChain(remaining_factor) ==
    IF ~RatLt(One, remaining_factor) THEN <<>>
    ELSE LET tempo_factor == RatMin(Two, remaining_factor)
         IN  <<tempo_factor>> \o TempoChain(RatDiv(remaining_factor, tempo_factor))

\* the atempo factors of the -af argument in speed mode with audio
AudioTempo(speed_factor) ==
    IF RatLt(Two, speed_factor) THEN TempoChain(speed_factor)
    ELSE <<RatMin(Two, speed_factor)>>

RECURSIVE RatProduct(_)
RatProduct(factors) ==
    IF factors = <<>> THEN One
    ELSE RatMul(Head(factors), RatProduct(Tail(factors)))

\* the ffmpeg command that the call builds
StdCommand(mode, duration, target_duration, has_audio) ==
    LET branch == Branch(mode, duration, target_duration)
        speed_factor == RatDiv(duration, target_duration)
    IN  [ branch |-> branch,
          trim |-> IF branch = "speed" THEN None ELSE target_duration,
          loop_file |-> IF branch = "loop"
                        THEN LoopFile(LoopCount(target_duration, duration))
                        ELSE <<>>,
          setpts |-> IF branch = "speed" THEN RatDiv(One, speed_factor) ELSE None,
          atempo |-> IF branch = "speed" /\ has_audio
                     THEN AudioTempo(speed_factor) ELSE <<>>,
          audio |-> has_audio ]

\* the length of what ffmpeg writes for the command
OutputDuration(command, duration) ==
    CASE command.branch = "cut" -> RatMin(duration, command.trim)
      [] command.branch = "loop" ->
            RatMin(RatTimes(Len(command.loop_file), duration), command.trim)
      [] command.branch = "speed" -> RatMul(command.setpts, duration)

InitStd ==
    /\ SegIdle
    /\ SearchIdle
    /\ JobIdle
    /\ retry = NoCall
    /\ limiter = NoCall
    /\ img = NoCall
    /\ batch = NoCall
    /\ std = [pc |-> "idle"]

\* standardize_video(input_path, output_path, target_duration, mode) is
\* called and probes the input; a loop of a clip shorter than 0.5 s goes to
\* the frame extraction, every other call has its command
StandardizeVideoCalled ==
    /\ std.pc = "idle"
    /\ \E mode \in StdModes, duration \in StdDurations,
          target_duration \in StdDurations, has_audio \in BOOLEAN :
          std' = [ pc |-> IF Branch(mode, duration, target_duration) = "loop"
                             /\ RatLt(duration, Half)
                          THEN "frame" ELSE "command",
                   mode |-> mode,
                   duration |-> duration,
                   target_duration |-> target_duration,
                   has_audio |-> has_audio,
                   command |-> StdCommand(mode, duration, target_duration, has_audio),
                   output |-> None ]
    /\ UNCHANGED <<segVars, searchVars, jobVars, retry, limiter, img, batch>>

\* the frame of an extremely short clip is extracted and made a still video
\* of the target duration, or the extraction fails and the clip is looped
FrameExtraction ==
    /\ std.pc = "frame"
    /\ \E extracted \in BOOLEAN :
          std' = IF extracted
                 THEN [std EXCEPT !.pc = "done",
                                  !.output = [kind |-> "still",
                                              duration |-> std.target_duration]]
                 ELSE [std EXCEPT !.pc = "command"]
    /\ UNCHANGED <<segVars, searchVars, jobVars, retry, limiter, img, batch>>

\* ffmpeg runs the command: it writes the output, or returns a non-zero
\* code and the call raises ValueError
FfmpegRuns ==
    /\ std.pc = "command"
    /\ \E returncode \in {0, 1} :
          std' = IF returncode = 0
                 THEN [std EXCEPT !.pc = "done",
                                  !.output = [kind |-> std.command.branch,
                                              duration |->
                                                 OutputDuration(std.command,
                                                                std.duration)]]
                 ELSE [std EXCEPT !.pc = "raised"]
    /\ UNCHANGED <<segVars, searchVars, jobVars, retry, limiter, img, batch>>

NextStd ==
    \/ StandardizeVideoCalled
    \/ FrameExtraction
    \/ FfmpegRuns

SpecStd == InitStd /\ [][NextStd]_vars

StdBuilt == std.pc \in {"command", "done", "raised"}

\* C29: in speed mode with audio every atempo factor of the command lies
\* in [0.5, 2.0], and the product of the factors equals the speed factor
\* duration / target_duration, whether the speed factor is below 0.5,
\* within the range or above 2.0.
C29_TempoFactorsInRange ==
    (StdBuilt /\ std.command.branch = "speed" /\ std.has_audio) =>
        /\ \A i \in DOMAIN std.command.atempo :
              /\ RatLe(Half, std.command.atempo[i])
              /\ RatLe(std.command.atempo[i], Two)
        /\ RatEq(RatProduct(std.command.atempo),
                 RatDiv(std.duration, std.target_duration))

RatAbsDiff(a, b) ==
    LET x == a[1] * b[2] - b[1] * a[2]
    IN  <<IF x < 0 THEN -x ELSE x, a[2] * b[2]>>
\* math.ceil(a) for a positive rational
RatCeil(a) == (a[1] + a[2] - 1) \div a[2]

\* min_duration = 1.0: a shorter request is raised to it
min_duration == One
EffectiveDuration(duration) ==
    IF RatLt(duration, min_duration) THEN min_duration ELSE duration

\* abs(actual_duration - duration) > 0.5
DurationMismatch(actual_duration, duration) ==
    RatLt(Half, RatAbsDiff(actual_duration, duration))

\* actual_duration < duration * 0.8 and actual_duration < 2.0
TooShort(actual_duration, duration) ==
    /\ RatLt(actual_duration, RatMul(duration, Rat(8, 10)))
    /\ RatLt(actual_duration, Two)

\* the alternative conversion runs
RecoveryTriggered(actual_duration, duration) ==
    /\ DurationMismatch(actual_duration, duration)
    /\ TooShort(actual_duration, duration)

\* the concat file of the alternative conversion: ceil(duration) entries of
\* one second and a last entry without duration
ConcatFile(duration) ==
    [i \in 1..(RatCeil(duration) + 1) |->
        IF i <= RatCeil(duration) THEN [file |-> "duplicate_image", duration |-> One]
        ELSE [file |-> "duplicate_image", duration |-> None]]

StillRequests == {Rat(n, 10) : n \in 1..MaxStillTenths}
StillMeasures == {Rat(n, 10) : n \in 0..MaxStillTenths}

InitImg ==
    /\ SegIdle
    /\ SearchIdle
    /\ JobIdle
    /\ retry = NoCall
    /\ limiter = NoCall
    /\ std = NoCall
    /\ batch = NoCall
    /\ img = [pc |-> "idle"]

\* image_to_video(image_path, output_path, duration) is called and runs
\* ffmpeg: a non-zero return code raises ValueError, otherwise the clip is
\* at output_path
ImageToVideoCalled ==
    /\ img.pc = "idle"
    /\ \E requested \in StillRequests, returncode \in {0, 1} :
          img' = [ pc |-> IF returncode = 0 THEN "encoded" ELSE "raised",
                   requested |-> requested,
                   duration |-> EffectiveDuration(requested),
                   actual_duration |-> None,
                   output |-> IF returncode = 0 THEN "original" ELSE "none",
                   recoveries |-> 0,          \* history: alternative conversions begun
                   recovery |-> "none",       \* history: how the alternative ended
                   concat_file |-> <<>> ]
    /\ UNCHANGED <<segVars, searchVars, jobVars, retry, limiter, std, batch>>

\* get_video_duration(output_path) returns the measured duration or raises;
\* the two conditions decide between returning and the alternative conversion
DurationVerified ==
    /\ img.pc = "encoded"
    /\ \/ img' = [img EXCEPT !.pc = "raised"]
       \/ \E actual_duration \in StillMeasures :
             img' = [img EXCEPT
                       !.actual_duration = actual_duration,
                       !.pc = IF RecoveryTriggered(actual_duration, img.duration)
                              THEN "recovery" ELSE "returned"]
    /\ UNCHANGED <<segVars, searchVars, jobVars, retry, limiter, std, batch>>

\* The alternative conversion.  shutil.copy2 or writing the concat file may
\* raise; ffmpeg, which writes to the same output_path with -y, may return a
\* non-zero code before or after it has opened the output; after a zero
\* return code get_video_duration may raise.  Every exception reaches the
\* function's `except Exception`, which re-raises it.
RecoveryOutcomes ==
    {"copy_raised", "failed_output_kept", "failed_output_overwritten",
     "converted", "converted_probe_raised"}
AlternativeConversion ==
    /\ img.pc = "recovery"
    /\ \E outcome \in RecoveryOutcomes :
          img' = [img EXCEPT
                    !.recoveries = @ + 1,
                    !.recovery = outcome,
                    !.concat_file = IF outcome = "copy_raised" THEN <<>>
                                    ELSE ConcatFile(img.duration),
                    !.output = CASE outcome \in {"converted", "converted_probe_raised"}
                                       -> "alternative"
                                 [] outcome = "failed_output_overwritten" -> "partial"
                                 [] OTHER -> @,
                    !.pc = IF outcome \in {"copy_raised", "converted_probe_raised"}
                           THEN "raised" ELSE "returned"]
    /\ UNCHANGED <<segVars, searchVars, jobVars, retry, limiter, std, batch>>

NextImg ==
    \/ ImageToVideoCalled
    \/ DurationVerified
    \/ AlternativeConversion

SpecImg == InitImg /\ [][NextImg]_vars

ImgMeasured == img.pc \in {"recovery", "returned", "raised"} /\ img.actual_duration # None
RecoveryFailed == img.recovery \notin {"none", "converted"}

\* C31: the alternative conversion of image_to_video runs exactly when the
\* measured duration is more than 0.5 s off the target, below 80% of it and
\* below 2 s (a 1.0 s clip for a 2 s target triggers it); it runs at most
\* once per call; and when it fails the call still returns normally, with
\* the clip that the first conversion produced.
C31_RecoveryOnceAndNotFatal ==
    /\ img.pc # "idle" => img.recoveries <= 1
    /\ (ImgMeasured /\ img.pc # "recovery") =>
          (img.recoveries = 1 <=>
              /\ RatLt(Half, RatAbsDiff(img.actual_duration, img.duration))
              /\ RatLt(img.actual_duration, RatMul(img.duration, Rat(8, 10)))
              /\ RatLt(img.actual_duration, Two))
    /\ (ImgMeasured /\ img.duration = Two /\ img.actual_duration = One) =>
          img.pc = "recovery" \/ img.recoveries = 1
    /\ (img.pc # "idle" /\ RecoveryFailed) =>
          img.pc = "returned" /\ img.output = "original"

(***************************************************************************)
(* Further claims about the job's life (specification Spec)                *)
(***************************************************************************)
\* C32: for one job at most one concatenation task is in progress at any
\* time: a from-job request made while a concatenation is in progress
\* starts no second task, whatever other requests and status writes are
\* interleaved with it.
C32_OneConcatenationTask ==
    concat.pending <= 1

(***************************************************************************)
(* Specification SpecLong: the processing of one job whose script has more *)
(* words than a segment holds and a word count that is no multiple of the  *)
(* segment size (3 words at 40 words per minute: 2 words per segment).     *)
(***************************************************************************)
LongSpeakingRate == 40
LongRequests ==
    {r \in [file_content : {JobText(MaxLongWords)}, mode : JobModes,
            videos_per_minute : JobPerMinute, images_per_minute : JobPerMinute,
            search_provider : JobProviders, speaking_rate : {LongSpeakingRate}] :
        r.mode = "mixed" => r.search_provider # "google"}

ProcessLongScript == ProcessScriptOf(LongRequests)

NextLong ==
    \/ ProcessLongScript
    \/ \E t \in DOMAIN tasks : StartVideoContent(t)
    \/ \E t \in DOMAIN tasks : StartImageContent(t)
    \/ \E t \in DOMAIN tasks : SegmentStock(t)
    \/ \E t \in DOMAIN tasks : GenerateQueries(t)
    \/ \E t \in DOMAIN tasks : ResolveVideoSegment(t)
    \/ \E t \in DOMAIN tasks : ResolveImageSegment(t)
    \/ \E t \in DOMAIN tasks : VideosInnerCompleted(t)
    \/ \E t \in DOMAIN tasks : VideoContentCompleted(t)
    \/ \E t \in DOMAIN tasks : ImagesInnerCompleted(t)
    \/ \E t \in DOMAIN tasks : ImageContentResult(t)
    \/ \E t \in DOMAIN tasks : InnerFailed(t)
    \/ \E t \in DOMAIN tasks : OuterFailed(t)
    \/ \E t \in DOMAIN tasks : AiSegment(t)
    \/ \E t \in DOMAIN tasks : AiPrompts(t)
    \/ \E t \in DOMAIN tasks : AiBatch(t)
    \/ \E t \in DOMAIN tasks : StartMixedContent(t)
    \/ \E t \in DOMAIN tasks : MixedSegment(t)
    \/ \E t \in DOMAIN tasks : MixedResult(t)

SpecLong == Init /\ [][NextLong]_vars

\* C33: from the moment a run has set segment_count, the job's
\* processed_segment_count never exceeds it, for every script length.
C33_ProgressAtMostTotal ==
    (job # NoJob /\ job.segment_count > 0) =>
        job.processed_segment_count <= job.segment_count

(***************************************************************************)
(* Further claims about the job's life (specifications Spec and SpecOps)   *)
(***************************************************************************)
\* get_job_content(job_id): every row of created_content of the job
get_job_content == content

\* C34: the job holds at most one content record per segment of its current
\* run; once a restarted run has completed, the records that concatenation
\* reads for the job are those the restarted run created, and none of an
\* earlier run.
C34_RecordsOfCurrentRunOnly ==
    job # NoJob =>
        /\ \A i, j \in DOMAIN get_job_content :
              (i # j /\ get_job_content[i].run = job.restarts
                     /\ get_job_content[j].run = job.restarts) =>
                 get_job_content[i].segment # get_job_content[j].segment
        /\ (job.restarts > 0 /\ job.status = STATUS_COMPLETED) =>
              \A i \in DOMAIN get_job_content : get_job_content[i].run = job.restarts

\* C35: a completed job stores no error and a failed job stores an error
\* message; so a job that failed, was restarted and then completed reports
\* no error.
C35_ErrorMatchesStatus ==
    job # NoJob =>
        /\ job.status = STATUS_COMPLETED => ~job.error
        /\ job.status = STATUS_FAILED => job.error

\* GET /api/process-script/status/{task_id}: result["concatenatedVideoUrl"]
\* is set
TaskStatusShowsVideoUrl(j) ==
    /\ j.video_segments_completed > 0
    /\ j.concatenated_video_status = CONCAT_COMPLETED
    /\ j.video_url

\* GET /api/concatenate-videos/status/{job_id}: response["videoUrl"] is set
\* (file_exists: os.path.exists of the recorded path)
ConcatenationStatusShowsVideoUrl(j, file_exists) ==
    /\ j.concatenated_video_status = CONCAT_COMPLETED
    /\ j.video_url
    /\ file_exists

TaskStep(t) ==
    \/ StartVideoContent(t)
    \/ StartImageContent(t)
    \/ SegmentStock(t)
    \/ GenerateQueries(t)
    \/ ResolveVideoSegment(t)
    \/ ResolveImageSegment(t)
    \/ VideosInnerCompleted(t)
    \/ VideoContentCompleted(t)
    \/ ImagesInnerCompleted(t)
    \/ ImageContentResult(t)
    \/ InnerFailed(t)
    \/ OuterFailed(t)
    \/ AiSegment(t)
    \/ AiPrompts(t)
    \/ AiBatch(t)
    \/ StartMixedContent(t)
    \/ MixedSegment(t)
    \/ MixedResult(t)

MaxTasks == MaxRestarts + 1

NextLive ==
    \/ ProcessScript
    \/ RestartJob
    \/ \E t \in DOMAIN tasks : TaskStep(t)

SpecLive ==
    /\ Init
    /\ [][NextLive]_vars
    /\ \A t \in 1..MaxTasks : WF_vars(t \in DOMAIN tasks /\ TaskStep(t))

Launched(t) == t \in DOMAIN tasks
Terminated(t) == t \in DOMAIN tasks /\ Task(t).pc = "finished"

SpecConcatLive == InitConcat /\ [][NextConcat]_vars /\ WF_vars(NextConcat)

ConcatEnded == Run.pc = "done"

BatchCallers == {1, 2}
NoBatch == [pc |-> "idle"]

\* output_filename = f"ai-image-batch-{i}-{int(time.time())}.png" and
\* output_path = os.path.join(output_dir, output_filename)
OutputFilename(caller, i, stamp) == <<"ai-image-batch", i, stamp>>
OutputPath(caller, i, stamp) == <<"images", OutputFilename(caller, i, stamp)>>

\* the prompts whose tasks one gather runs: all of them for minimax,
\* batch_size = provider_rate_limits[provider]["calls"] otherwise
BatchSize(provider, n) ==
    IF provider_rate_limits(provider).calls = Unlimited THEN n
    ELSE provider_rate_limits(provider).calls
BatchOf(provider, n, i) ==
    {k \in 0..(n - 1) : k >= i /\ k < i + BatchSize(provider, n)}

\* asyncio.gather(*tasks, return_exceptions=True) returns the results in the
\* order of the tasks, whatever order they ended in
RECURSIVE GatherResults(_, _)
GatherResults(state, k) ==
    IF k \notin DOMAIN state THEN <<>>
    ELSE (IF state[k] \in {"done", "failed"} THEN <<k>> ELSE <<>>)
            \o GatherResults(state, k + 1)

\* paths.append(None) for an exception, paths.append(result) otherwise
PathsOfLastFirst(call, caller) ==
    [r \in DOMAIN call.results |->
        LET k == call.results[Len(call.results) + 1 - r]
        IN  IF call.state[k] = "failed" THEN None
            ELSE OutputPath(caller, k, call.stamp[k])]
PathsOf(call, caller) ==
    [r \in DOMAIN call.results |->
        LET k == call.results[r]
        IN  IF call.state[k] = "failed" THEN None
            ELSE OutputPath(caller, k, call.stamp[k])]

InitBatch ==
    /\ SegIdle
    /\ SearchIdle
    /\ JobIdle
    /\ retry = NoCall
    /\ limiter = NoCall
    /\ std = NoCall
    /\ img = NoCall
    /\ batch = [pc |-> "serving", now |-> 0,
                calls |-> [c \in BatchCallers |-> NoBatch]]

PromptsInModel ==
    LET n(c) == IF batch.calls[c] = NoBatch THEN 0 ELSE batch.calls[c].n
    IN  n(1) + n(2)

\* the tasks of the gather that starts at prompt i are created now
StartGather(call, i, now) ==
    [call EXCEPT
        !.i = i,
        !.pc = "gather",
        !.state = [k \in DOMAIN call.state |->
                      IF k \in BatchOf(call.provider, call.n, i) THEN "pending"
                      ELSE call.state[k]],
        !.stamp = [k \in DOMAIN call.stamp |->
                      IF k \in BatchOf(call.provider, call.n, i) THEN now
                      ELSE call.stamp[k]]]

\* generate_ai_images_batch(prompts, provider) is called with n prompts (one,
\* or as many as the bound leaves) and starts its first gather
GenerateAiImagesBatchCalled(c) ==
    /\ batch.calls[c] = NoBatch
    /\ PromptsInModel < MaxPrompts
    /\ \E provider \in AIImageProviders, n \in {1, MaxPrompts - PromptsInModel} :
          batch' = [batch EXCEPT !.calls[c] =
              StartGather([pc |-> "gather", provider |-> provider, n |-> n, i |-> 0,
                           state |-> [k \in 0..(n - 1) |-> "unstarted"],
                           stamp |-> [k \in 0..(n - 1) |-> 0],
                           out_of_order |-> FALSE, \* history: a task ended
                                                  \* before an earlier one
                           results |-> <<>>,
                           wake |-> 0,
                           paths |-> <<>>],
                          0, batch.now)]
    /\ UNCHANGED <<segVars, searchVars, jobVars, retry, limiter, std, img>>

\* one generate_ai_image of the running gather returns its output_path or
\* raises
GenerationEnds(c) ==
    /\ batch.calls[c] # NoBatch
    /\ batch.calls[c].pc = "gather"
    /\ \E k \in DOMAIN batch.calls[c].state, ok \in BOOLEAN :
          /\ batch.calls[c].state[k] = "pending"
          /\ batch' = [batch EXCEPT
                !.calls[c].state[k] = IF ok THEN "done" ELSE "failed",
                !.calls[c].out_of_order =
                    @ \/ \E l \in DOMAIN batch.calls[c].state :
                            l < k /\ batch.calls[c].state[l] = "pending"]
    /\ UNCHANGED <<segVars, searchVars, jobVars, retry, limiter, std, img>>

\* every task of the gather has ended: results.extend(batch_results); with
\* prompts left the call sleeps for the provider's period, otherwise it
\* builds paths and returns
GatherReturns(c) ==
    /\ batch.calls[c] # NoBatch
    /\ batch.calls[c].pc = "gather"
    /\ \A k \in DOMAIN batch.calls[c].state : batch.calls[c].state[k] # "pending"
    /\ LET call == batch.calls[c]
           gathered == [call EXCEPT !.results = GatherResults(call.state, 0)]
           more == call.i + BatchSize(call.provider, call.n) < call.n
       IN  batch' = [batch EXCEPT !.calls[c] =
              IF more
              THEN [gathered EXCEPT
                       !.pc = "sleep",
                       !.wake = batch.now + provider_rate_limits(call.provider).period]
              ELSE [gathered EXCEPT
                       !.pc = "returned",
                       !.paths = PathsOf(gathered, c)]]
    /\ UNCHANGED <<segVars, searchVars, jobVars, retry, limiter, std, img>>

\* asyncio.sleep(wait_time) is over: the next gather starts
BatchSleepOver(c) ==
    /\ batch.calls[c] # NoBatch
    /\ batch.calls[c].pc = "sleep"
    /\ batch.now >= batch.calls[c].wake
    /\ batch' = [batch EXCEPT !.calls[c] =
          StartGather(batch.calls[c],
                      batch.calls[c].i + BatchSize(batch.calls[c].provider,
                                                   batch.calls[c].n),
                      batch.now)]
    /\ UNCHANGED <<segVars, searchVars, jobVars, retry, limiter, std, img>>

\* time passes
BatchClockAdvances ==
    /\ batch.pc = "serving"
    /\ batch.now + provider_rate_limits("openai").period <= MaxBatchTime
    /\ batch' = [batch EXCEPT !.now = @ + provider_rate_limits("openai").period]
    /\ UNCHANGED <<segVars, searchVars, jobVars, retry, limiter, std, img>>

NextBatch ==
    \/ \E c \in BatchCallers : GenerateAiImagesBatchCalled(c)
    \/ \E c \in BatchCallers : GenerationEnds(c)
    \/ \E c \in BatchCallers : GatherReturns(c)
    \/ \E c \in BatchCallers : BatchSleepOver(c)
    \/ BatchClockAdvances

SpecBatch == InitBatch /\ [][NextBatch]_vars

BatchReturned(c) == batch.calls[c] # NoBatch /\ batch.calls[c].pc = "returned"

\* C39: generate_ai_images_batch returns one entry per prompt, in prompt
\* order: entry i (counted from 0) is the output path of the generation of
\* prompt i, or None when that generation raised, whatever order the
\* generations ended in; so zip(content_queries, image_paths) pairs
\* segment i with the generation of its own prompt.
C39_PathsInPromptOrder ==
    \A c \in BatchCallers :
        BatchReturned(c) =>
            LET call == batch.calls[c]
            IN  /\ Len(call.paths) = call.n
                /\ \A i \in 0..(call.n - 1) :
                      call.paths[i + 1] =
                         IF call.state[i] = "failed" THEN None
                         ELSE OutputPath(c, i, call.stamp[i])

\* C39 witness: a call with more prompts than one gather takes has
\* returned; its generations ended out of order and one of them raised
C39_Witness ==
    \E c \in BatchCallers :
        /\ BatchReturned(c)
        /\ batch.calls[c].n > BatchSize(batch.calls[c].provider, batch.calls[c].n)
        /\ batch.calls[c].out_of_order
        /\ \E i \in DOMAIN batch.calls[c].state : batch.calls[c].state[i] = "failed"
        /\ \E i \in DOMAIN batch.calls[c].state : batch.calls[c].state[i] = "done"

\* the generations in flight: (caller, prompt) pairs whose task is pending
InFlight ==
    {ck \in BatchCallers \X (0..(MaxPrompts - 1)) :
        /\ batch.calls[ck[1]] # NoBatch
        /\ ck[2] \in DOMAIN batch.calls[ck[1]].state
        /\ batch.calls[ck[1]].state[ck[2]] = "pending"}

\* C40: two image generations in flight at the same time, of one call or of
\* two, never write to the same local output path, nor, since the upload
\* names the storage object after the file, to the same object name.
C40_NoArtifactCollision ==
    \A a, b \in InFlight :
        a # b =>
            /\ OutputPath(a[1], a[2], batch.calls[a[1]].stamp[a[2]])
                  # OutputPath(b[1], b[2], batch.calls[b[1]].stamp[b[2]])
            /\ OutputFilename(a[1], a[2], batch.calls[a[1]].stamp[a[2]])
                  # OutputFilename(b[1], b[2], batch.calls[b[1]].stamp[b[2]])
====
